---- MODULE Spec2Model ----
(***************************************************************************)
(* A model of the carrier integration service: the UPS token manager      *)
(* (UpsAuthenticator), the HTTP error translator (HttpClient), the rating *)
(* operation (UpsRatingOperation) and the carrier client.                 *)
(*                                                                         *)
(* JavaScript runs every callback to completion and drains the microtask   *)
(* queue before the next I/O callback or caller script runs.  The model    *)
(* keeps that: an action is one synchronous run of code between two        *)
(* suspension points, continuations of settled promises (microtasks) run   *)
(* before any new call, clock step or network response (macrotasks).       *)
(***************************************************************************)
EXTENDS Integers, Sequences, FiniteSets, TLC

\* ---------------------------------------------------------------- bounds
\* Number of concurrent callers (each runs one call at a time, again and again).
NProcs == 2
\* Number of callers when every cause of failure is tried.
NErrProcs == 2
\* Cap on the credential exchanges sent in one behaviour.
MaxExchanges == 2
\* Cap on the clock, in seconds after the start of the behaviour.
MaxSeconds == 1
\* Number of carriers a registry holds at most.
MaxCarriers == 3

\* ------------------------------------------------------ program constants
TOKEN_EXPIRY_BUFFER_MS == 60000
\* expires_in is in seconds; the code multiplies by 1000.
MsPerSecond == 1000
\* RateRequestSchema: the most packages of a request and the length of a
\* shipper account number
MaxPackages == 200
AccountNumberLength == 6

Procs == 1..NProcs
ErrProcs == 1..NErrProcs
ExchangeIds == 1..MaxExchanges

\* ------------------------------------------------------------ JS numbers
\* A JavaScript number is an integer or NaN (parseInt of a malformed string).
Num(n) == [nan |-> FALSE, v |-> n]
NaN == [nan |-> TRUE, v |-> 0]
JsAdd(a, b) == IF a.nan \/ b.nan THEN NaN ELSE Num(a.v + b.v)
JsMul(a, b) == IF a.nan \/ b.nan THEN NaN ELSE Num(a.v * b.v)
\* a < b is false as soon as one side is NaN.
JsLess(a, b) == ~a.nan /\ ~b.nan /\ a.v < b.v

Digits == <<"0", "1", "2", "3", "4", "5", "6", "7", "8", "9">>
IsDigit(c) == \E i \in 1..10 : Digits[i] = c
DigitValue(c) == (CHOOSE i \in 1..10 : Digits[i] = c) - 1

\* The value of the digits s[1..n], all of them digits.
RECURSIVE DigitsValue(_, _)
DigitsValue(s, n) ==
  IF n = 0 THEN 0 ELSE 10 * DigitsValue(s, n - 1) + DigitValue(s[n])

\* The length of the longest prefix of s made of digits only.
RECURSIVE DigitPrefix(_, _)
DigitPrefix(s, i) ==
  IF i <= Len(s) /\ IsDigit(s[i]) THEN DigitPrefix(s, i + 1) ELSE i - 1

\* parseInt(s, 10) on a string given as its sequence of characters: the
\* leading digits are read, the rest is ignored; no leading digit gives NaN
\* (so does a missing field, modelled as the empty sequence).
ParseInt(s) ==
  LET n == DigitPrefix(s, 1) IN IF n = 0 THEN NaN ELSE Num(DigitsValue(s, n))

\* A decimal amount is held in hundredths: 11.3 is Num(1130).
Hundredths == 100

\* The two digits after the point at s[i], in hundredths.
Fraction(s, i) ==
  IF i > Len(s) \/ s[i] # "." \/ i + 1 > Len(s) \/ ~IsDigit(s[i + 1]) THEN 0
  ELSE 10 * DigitValue(s[i + 1])
         + (IF i + 2 <= Len(s) /\ IsDigit(s[i + 2])
            THEN DigitValue(s[i + 2]) ELSE 0)

\* parseFloat(s) on a string given as its sequence of characters, for
\* unsigned decimal strings with at most two digits after the point: the
\* longest numeric prefix is read; a string that starts with no digit gives
\* NaN.
ParseFloat(s) ==
  LET n == DigitPrefix(s, 1) IN
  IF n = 0 THEN NaN
  ELSE Num(Hundredths * DigitsValue(s, n) + Fraction(s, n + 1))

\* ------------------------------------------------------------ CarrierError
\* enum CarrierErrorCode
CarrierErrorCodes ==
  {"VALIDATION_ERROR", "AUTHENTICATION_ERROR", "AUTHORIZATION_ERROR",
   "RATE_LIMIT_ERROR", "CARRIER_API_ERROR", "NETWORK_ERROR", "TIMEOUT_ERROR",
   "PARSE_ERROR", "CONFIGURATION_ERROR", "UNKNOWN_ERROR"}

NoStatus == 0
NoCarrier == "undefined"

\* new CarrierError(code, message, details): retryable defaults to false.
CarrierError(code, message, httpStatus, carrier, upstream, retryable) ==
  [code |-> code, message |-> message, httpStatus |-> httpStatus,
   carrier |-> carrier, upstream |-> upstream, retryable |-> retryable]

NoUpstream == <<>>

\* instanceof CarrierError
IsCarrierError(e) == e.code \in CarrierErrorCodes

\* ---------------------------------------------------------- HttpClient
\* What axios can throw.  class: "AxiosError" | "CarrierError" | "Error";
\* code: the AxiosError code; status: the response status (NoStatus when no
\* response was received); body: the records of response.errors of the
\* upstream error body, each with its code and message ("" for a field it
\* lacks), or <<>> when the body has none.
AxiosFailure(code, status, body) ==
  [class |-> "AxiosError", code |-> code, status |-> status, body |-> body,
   message |-> code]

\* A throwable that is no AxiosError.
PlainFailure == [class |-> "Error", code |-> "", status |-> NoStatus,
                 body |-> <<>>, message |-> "boom"]

UpstreamError(code, message) == [code |-> code, message |-> message]
UpsErrorBody == <<UpstreamError("250003", "Invalid credentials")>>

\* One failure for every rule of the error translator.
TransportFailures ==
  {AxiosFailure("ECONNABORTED", NoStatus, <<>>),
   AxiosFailure("ETIMEDOUT", NoStatus, <<>>),
   AxiosFailure("ERR_NETWORK", NoStatus, <<>>),
   AxiosFailure("ERR_BAD_REQUEST", 401, UpsErrorBody),
   AxiosFailure("ERR_BAD_REQUEST", 403, <<>>),
   AxiosFailure("ERR_BAD_REQUEST", 429, <<>>),
   AxiosFailure("ERR_BAD_REQUEST", 400, UpsErrorBody),
   AxiosFailure("ERR_BAD_RESPONSE", 500, <<>>),
   PlainFailure}

\* Every AxiosError the error translator tells apart: each error code with
\* each status, also those that more than one rule matches, and each kind of
\* error body; and a throwable that is no AxiosError.
AxiosCodes ==
  {"ECONNABORTED", "ETIMEDOUT", "ERR_NETWORK", "ERR_BAD_REQUEST",
   "ERR_BAD_RESPONSE"}
Statuses == {NoStatus, 302, 400, 401, 403, 404, 429, 499, 500, 503}
ErrorBodies ==
  {<<>>, UpsErrorBody,
   <<UpstreamError("", "")>>,
   <<UpstreamError("111210", "The requested service is unavailable"),
     UpstreamError("111057", "Missing package weight")>>}
AllFailures ==
  {AxiosFailure(c, s, b) : c \in AxiosCodes, s \in Statuses, b \in ErrorBodies}
    \cup {PlainFailure}

\* The failures tried with many concurrent callers: one the token manager
\* passes through and the rating operation reacts to (401), one it wraps and
\* the rating operation only labels.
CoreFailures ==
  {AxiosFailure("ERR_BAD_REQUEST", 401, UpsErrorBody),
   AxiosFailure("ERR_NETWORK", NoStatus, <<>>)}

\* extractUpstreamErrors: <<>> for undefined, else <<code, message>> with the
\* defaults for empty fields.
extractUpstreamErrors(body) ==
  IF body = <<>> THEN <<>>
  ELSE <<IF body[1].code = "" THEN "UNKNOWN" ELSE body[1].code,
         IF body[1].message = "" THEN "Unknown carrier error"
         ELSE body[1].message>>

\* An error translator for which a status of 500 is not yet retryable.
translateErrorAbove500(f) ==
  IF f.class = "CarrierError" THEN f.error
  ELSE IF f.class = "AxiosError" THEN
    IF f.code = "ECONNABORTED" \/ f.code = "ETIMEDOUT" THEN
      CarrierError("TIMEOUT_ERROR", <<"Request timed out: ", f.message>>,
                   NoStatus, NoCarrier, NoUpstream, TRUE)
    ELSE IF f.status = NoStatus THEN
      CarrierError("NETWORK_ERROR", <<"Network error: ", f.message>>,
                   NoStatus, NoCarrier, NoUpstream, TRUE)
    ELSE IF f.status = 401 THEN
      CarrierError("AUTHENTICATION_ERROR", <<"Authentication failed">>,
                   f.status, NoCarrier, NoUpstream, TRUE)
    ELSE IF f.status = 403 THEN
      CarrierError("AUTHORIZATION_ERROR", <<"Authorization denied">>,
                   f.status, NoCarrier, NoUpstream, FALSE)
    ELSE IF f.status = 429 THEN
      CarrierError("RATE_LIMIT_ERROR", <<"Rate limit exceeded">>,
                   f.status, NoCarrier, NoUpstream, TRUE)
    ELSE
      LET upstreamErrors == extractUpstreamErrors(f.body) IN
      CarrierError("CARRIER_API_ERROR",
                   IF upstreamErrors # <<>> THEN <<upstreamErrors[2]>>
                   ELSE <<"Carrier API returned HTTP ", ToString(f.status)>>,
                   f.status, NoCarrier, upstreamErrors, f.status > 500)
  ELSE
    CarrierError("UNKNOWN_ERROR", <<f.message>>, NoStatus, NoCarrier,
                 NoUpstream, FALSE)

\* HttpClient.translateError
translateError(f) ==
  IF f.class = "CarrierError" THEN f.error
  ELSE IF f.class = "AxiosError" THEN
    IF f.code = "ECONNABORTED" \/ f.code = "ETIMEDOUT" THEN
      CarrierError("TIMEOUT_ERROR", <<"Request timed out: ", f.message>>,
                   NoStatus, NoCarrier, NoUpstream, TRUE)
    ELSE IF f.status = NoStatus THEN
      CarrierError("NETWORK_ERROR", <<"Network error: ", f.message>>,
                   NoStatus, NoCarrier, NoUpstream, TRUE)
    ELSE IF f.status = 401 THEN
      CarrierError("AUTHENTICATION_ERROR", <<"Authentication failed">>,
                   f.status, NoCarrier, NoUpstream, TRUE)
    ELSE IF f.status = 403 THEN
      CarrierError("AUTHORIZATION_ERROR", <<"Authorization denied">>,
                   f.status, NoCarrier, NoUpstream, FALSE)
    ELSE IF f.status = 429 THEN
      CarrierError("RATE_LIMIT_ERROR", <<"Rate limit exceeded">>,
                   f.status, NoCarrier, NoUpstream, TRUE)
    ELSE
      LET upstreamErrors == extractUpstreamErrors(f.body) IN
      CarrierError("CARRIER_API_ERROR",
                   IF upstreamErrors # <<>> THEN <<upstreamErrors[2]>>
                   ELSE <<"Carrier API returned HTTP ", ToString(f.status)>>,
                   f.status, NoCarrier, upstreamErrors, f.status >= 500)
  ELSE
    CarrierError("UNKNOWN_ERROR", <<f.message>>, NoStatus, NoCarrier,
                 NoUpstream, FALSE)

\* ---------------------------------------------------------- the mapper
\* const WEIGHT_UNIT_TO_UPS, const UPS_WEIGHT_UNIT_TO_DOMAIN
WEIGHT_UNIT_TO_UPS == [LB |-> "LBS", KG |-> "KGS", OZ |-> "OZS"]
UPS_WEIGHT_UNIT_TO_DOMAIN == [LBS |-> "LB", KGS |-> "KG", OZS |-> "OZ"]

\* table[key] on an object literal: the table's own entry, else the member
\* of that name every object inherits from Object.prototype (a function or
\* an object, never a unit), else undefined.
ObjectPrototypeKeys ==
  {"constructor", "toString", "toLocaleString", "valueOf", "hasOwnProperty",
   "isPrototypeOf", "propertyIsEnumerable", "__proto__"}
Undefined == "undefined"
Inherited == "[inherited]"
Lookup(table, key) ==
  IF key \in DOMAIN table THEN table[key]
  ELSE IF key \in ObjectPrototypeKeys THEN Inherited
  ELSE Undefined

\* An optional member: Absent when undefined, else Given(its value).
Absent == <<>>
Given(x) == <<x>>

\* A string of which only the length is looked at, as its characters.
Chars(n) == [i \in 1..n |-> "x"]

\* An Address without a name, as far as RateRequestSchema looks at it
\* (residential, an optional boolean, is left out).  name and
\* stateProvinceCode are optional members.
Address(addressLines, city, stateProvinceCode, postalCode, countryCode) ==
  [name |-> Absent, addressLines |-> addressLines, city |-> city,
   stateProvinceCode |-> stateProvinceCode, postalCode |-> postalCode,
   countryCode |-> countryCode]
\* An address like those of VALID_DOMESTIC_RATE_REQUEST: no name, one
\* line, a city ("Timonium"), a state code ("MD"), a postal code ("21093")
\* and a country code ("US").
DomesticAddress ==
  Address(<<Chars(13)>>, Chars(8), Given(Chars(2)), Chars(5), Chars(2))

\* Dimensions and a Package; dimensions is an optional member.
Dimensions(length, width, height, unit) ==
  [length |-> length, width |-> width, height |-> height, unit |-> unit]
Package(value, unit, dimensions) ==
  [weight |-> [value |-> value, unit |-> unit], dimensions |-> dimensions]

\* UPS_SERVICE_CODES
UPS_SERVICE_CODES ==
  ("01" :> "UPS Next Day Air") @@ ("02" :> "UPS 2nd Day Air")
    @@ ("03" :> "UPS Ground") @@ ("07" :> "UPS Worldwide Express")
    @@ ("08" :> "UPS Worldwide Expedited") @@ ("11" :> "UPS Standard")
    @@ ("12" :> "UPS 3 Day Select") @@ ("13" :> "UPS Next Day Air Saver")
    @@ ("14" :> "UPS Next Day Air Early")
    @@ ("54" :> "UPS Worldwide Express Plus")
    @@ ("59" :> "UPS 2nd Day Air A.M.") @@ ("65" :> "UPS Worldwide Saver")
    @@ ("71" :> "UPS Worldwide Express Freight Midday")
    @@ ("72" :> "UPS Worldwide Economy DDP") @@ ("75" :> "UPS Heavy Goods")
    @@ ("96" :> "UPS Worldwide Express Freight")

\* A RateRequest.  origin, destination and shipperAccountNumber are
\* optional members (a caller may leave an address out); serviceCode is
\* Undefined when the request has none.
RateRequest(origin, destination, packages, serviceCode, shipperAccountNumber) ==
  [origin |-> origin, destination |-> destination, packages |-> packages,
   serviceCode |-> serviceCode,
   shipperAccountNumber |-> shipperAccountNumber]

\* The request of one package of 5 units between two domestic addresses;
\* when not valid, its origin has the country code "USA".
Request(valid, serviceCode, unit) ==
  RateRequest(Given(IF valid THEN DomesticAddress
                    ELSE [DomesticAddress EXCEPT !.countryCode = Chars(3)]),
              Given(DomesticAddress), <<Package(Num(5), unit, Absent)>>,
              serviceCode, Absent)
\* The request of a caller that sent none.
NoRequest == Request(TRUE, Undefined, "LB")
\* The requests tried where the request is not what is looked at.
CoreRequest(valid) == Request(valid, Undefined, "LB")
CoreRequests == {CoreRequest(valid) : valid \in BOOLEAN}
\* Requests with no service code, with an empty one and with one, for each
\* weight unit; and a request the schema rejects.
ServiceCodes == {Undefined, "", "03"}
WeightUnits == {"LB", "KG", "OZ"}
Requests ==
  {Request(TRUE, c, u) : c \in ServiceCodes, u \in WeightUnits}
    \cup {CoreRequest(FALSE)}

\* The addresses tried: every number of address lines from none to four, a
\* name, a line, a city and a postal code that are empty, of the greatest length
\* taken and one longer, a state/province code left out or of 1 to 3
\* characters, a country code of 1 to 3 characters.
AddressLineLists ==
  {[i \in 1..n |-> Chars(13)] : n \in 0..4}
    \cup {<<Chars(n)>> : n \in {0, 35, 36}}
    \cup {<<Chars(13), Chars(0)>>}
Addresses ==
  {[DomesticAddress EXCEPT !.addressLines = lines] : lines \in AddressLineLists}
    \cup {[DomesticAddress EXCEPT !.name = Given(Chars(n))] :
            n \in {0, 1, 35, 36}}
    \cup {[DomesticAddress EXCEPT !.city = Chars(n)] : n \in {0, 1, 30, 31}}
    \cup {[DomesticAddress EXCEPT !.postalCode = Chars(n)] : n \in {0, 1, 9, 10}}
    \cup {[DomesticAddress EXCEPT !.stateProvinceCode = s] :
            s \in {Absent} \cup {Given(Chars(n)) : n \in 1..3}}
    \cup {[DomesticAddress EXCEPT !.countryCode = Chars(n)] : n \in 1..3}
    \cup {[DomesticAddress EXCEPT !.countryCode = Chars(n),
                                !.stateProvinceCode = Absent] : n \in 2..3}

\* The packages tried: a weight that is negative, zero, positive or NaN, in
\* a unit of the domain or in tons; no dimensions, or dimensions of which
\* one is zero, negative or NaN, in a unit of the domain or in millimetres.
Weights == {Num(0 - 5), Num(0), Num(5), NaN}
Lengths == {Num(0 - 1), Num(0), Num(10), NaN}
DimensionsTried ==
  {Dimensions(Num(10), Num(8), Num(6), u) : u \in {"IN", "CM", "MM"}}
    \cup {Dimensions(l, Num(8), Num(6), "IN") : l \in Lengths}
    \cup {Dimensions(Num(10), l, Num(6), "CM") : l \in Lengths}
    \cup {Dimensions(Num(10), Num(8), l, "IN") : l \in Lengths}
Packages ==
  {Package(v, u, Absent) : v \in Weights, u \in WeightUnits \cup {"TONS"}}
    \cup {Package(Num(5), "LB", Given(d)) : d \in DimensionsTried}
    \cup {Package(Num(0), "KG", Given(Dimensions(Num(10), Num(8), Num(6), "CM")))}

\* The package lists tried: none, one of each package, two and three
\* packages of different weight units, a good package after a bad one and
\* before it, and the greatest number of packages and one more.
PackageLists ==
  {<<>>}
    \cup {<<pkg>> : pkg \in Packages}
    \cup {<<Package(Num(1), "KG", Absent), Package(Num(2), "LB", Absent)>>,
          <<Package(Num(1), "OZ", Absent), Package(Num(2), "KG", Absent),
            Package(Num(3), "LB", Absent)>>,
          <<Package(Num(0), "LB", Absent), Package(Num(2), "LB", Absent)>>,
          <<Package(Num(2), "LB", Absent), Package(Num(2), "TONS", Absent)>>}
    \cup {[i \in 1..n |-> Package(Num(5), "LB", Absent)] :
            n \in {MaxPackages, MaxPackages + 1}}

\* The requests tried where the request is what is looked at: the domestic
\* request with one member replaced (an address, the package list, the
\* service code, the shipper account number), and with a bad member next
\* to another.
ShipperAccountNumbers ==
  {Absent} \cup {Given(Chars(n)) : n \in {0, 5, 6, 7}}
DomesticRequest == Request(TRUE, Undefined, "LB")
AllRequests ==
  {[DomesticRequest EXCEPT !.origin = a] :
     a \in {Absent} \cup {Given(addr) : addr \in Addresses}}
    \cup {[DomesticRequest EXCEPT !.destination = a] :
            a \in {Absent} \cup {Given(addr) : addr \in Addresses}}
    \cup {[DomesticRequest EXCEPT !.packages = ps] : ps \in PackageLists}
    \cup {[DomesticRequest EXCEPT !.serviceCode = c] : c \in ServiceCodes}
    \cup {[DomesticRequest EXCEPT !.shipperAccountNumber = s] :
            s \in ShipperAccountNumbers}
    \cup {[DomesticRequest EXCEPT !.shipperAccountNumber = Given(Chars(6)),
                                !.packages = ps] :
            ps \in {<<>>, <<Package(Num(1), "KG", Absent),
                            Package(Num(2), "LB", Absent)>>}}
    \cup {[DomesticRequest EXCEPT !.origin = Absent, !.destination = Absent]}

\* z.number().positive(): a number, not NaN, above zero.
Positive(n) == ~n.nan /\ n.v > 0

\* AddressSchema: a name of 1 to 35 characters when there is one, 1 to 3
\* address lines of 1 to 35 characters, a city of 1 to 30, a state/province
\* code of exactly 2 when there is one, a postal code of 1 to 9 and a
\* country code of exactly 2.
AddressSchema(member) ==
  /\ member # Absent
  /\ LET addr == member[1] IN
       /\ addr.name # Absent => Len(addr.name[1]) \in 1..35
       /\ Len(addr.addressLines) \in 1..3
       /\ \A i \in 1..Len(addr.addressLines) :
            Len(addr.addressLines[i]) \in 1..35
       /\ Len(addr.city) \in 1..30
       /\ addr.stateProvinceCode # Absent =>
            Len(addr.stateProvinceCode[1]) = 2
       /\ Len(addr.postalCode) \in 1..9
       /\ Len(addr.countryCode) = 2

\* DimensionsSchema, PackageWeightSchema, PackageSchema
DimensionsSchema(dim) ==
  /\ Positive(dim.length)
  /\ Positive(dim.width)
  /\ Positive(dim.height)
  /\ dim.unit \in {"IN", "CM"}
PackageWeightSchema(weight) ==
  /\ Positive(weight.value)
  /\ weight.unit \in {"LB", "KG", "OZ"}
PackageSchema(pkg) ==
  /\ PackageWeightSchema(pkg.weight)
  /\ pkg.dimensions # Absent => DimensionsSchema(pkg.dimensions[1])

\* A schema that takes a country code of 2 or 3 characters.
RateRequestSchemaAlpha3(request) ==
  LET Alpha2(member) ==
        IF member # Absent /\ Len(member[1].countryCode) = 3
        THEN Given([member[1] EXCEPT !.countryCode = Chars(2)])
        ELSE member IN
  /\ AddressSchema(Alpha2(request.origin))
  /\ AddressSchema(Alpha2(request.destination))
  /\ Len(request.packages) \in 1..MaxPackages
  /\ \A i \in 1..Len(request.packages) : PackageSchema(request.packages[i])
  /\ request.shipperAccountNumber # Absent =>
       Len(request.shipperAccountNumber[1]) = AccountNumberLength

\* RateRequestSchema.safeParse(request).success
RateRequestSchema(request) ==
  /\ AddressSchema(request.origin)
  /\ AddressSchema(request.destination)
  /\ Len(request.packages) \in 1..MaxPackages
  /\ \A i \in 1..Len(request.packages) : PackageSchema(request.packages[i])
  /\ request.shipperAccountNumber # Absent =>
       Len(request.shipperAccountNumber[1]) = AccountNumberLength

\* request.serviceCode ? ... : ...
Truthy(x) == x # Undefined /\ x # ""

\* A request builder that names the ground service when the request names
\* none.
\* n.toString() of a natural number, as its characters.
RECURSIVE NumberToString(_)
NumberToString(n) ==
  IF n < 10 THEN <<Digits[n + 1]>>
  ELSE NumberToString(n \div 10) \o <<Digits[(n % 10) + 1]>>

\* mapPackageToUps(pkg), as far as it is looked at:
\* PackageWeight.UnitOfMeasurement.Code.
mapPackageToUps(pkg) ==
  [WeightCode |-> Lookup(WEIGHT_UNIT_TO_UPS, pkg.weight.unit)]

\* A member of the wire request that is one object or an array of them.
JsObject(item) == [array |-> FALSE, items |-> <<item>>]
JsArray(items) == [array |-> TRUE, items |-> items]

\* Shipment.Package and Shipment.NumOfPieces of buildUpsRateRequest;
\* NumOfPieces is an optional member.
ShipmentPackage(packages) ==
  IF Len(packages) = 1 THEN JsObject(packages[1]) ELSE JsArray(packages)
NumOfPieces(packages) ==
  IF Len(packages) > 1 THEN Given(NumberToString(Len(packages)))
  ELSE Absent

\* A request builder that names the ground service when the request names
\* none.
buildUpsRateRequestWithService(request) ==
  LET packages == [i \in 1..Len(request.packages) |->
                     mapPackageToUps(request.packages[i])] IN
  [Service |-> IF Truthy(request.serviceCode) THEN request.serviceCode
               ELSE "03",
   Package |-> ShipmentPackage(packages),
   NumOfPieces |-> NumOfPieces(packages)]

\* A request builder that sends the packages as an array, with their
\* number, however many they are.
buildUpsRateRequestAlwaysArray(request) ==
  LET packages == [i \in 1..Len(request.packages) |->
                     mapPackageToUps(request.packages[i])] IN
  [Service |-> IF Truthy(request.serviceCode) THEN request.serviceCode
               ELSE Undefined,
   Package |-> JsArray(packages),
   NumOfPieces |-> Given(NumberToString(Len(packages)))]

\* buildUpsRateRequest(request), as far as it is looked at:
\* Shipment.Service.Code (Undefined when Shipment has no Service),
\* Shipment.Package and Shipment.NumOfPieces.
buildUpsRateRequest(request) ==
  LET packages == [i \in 1..Len(request.packages) |->
                     mapPackageToUps(request.packages[i])] IN
  [Service |-> IF Truthy(request.serviceCode) THEN request.serviceCode
               ELSE Undefined,
   Package |-> ShipmentPackage(packages),
   NumOfPieces |-> NumOfPieces(packages)]
NoUpsRequest ==
  [Service |-> Undefined, Package |-> JsArray(<<>>), NumOfPieces |-> Absent]

\* const requestOption = request.serviceCode ? "Rate" : "Shop"
requestOption(request) ==
  IF Truthy(request.serviceCode) THEN "Rate" ELSE "Shop"

\* ------------------------------------------------------------ the state
VARIABLES
  now,            \* Date.now(), in ms since the start of the behaviour
  cache,          \* UpsAuthenticator.cache
  pendingRefresh, \* UpsAuthenticator.pendingRefresh: 0 (null) or the exchange
                  \* whose fetchToken() promise it holds
  exchangesSent,  \* credential exchanges sent so far
  outstanding,    \* credential exchanges sent and not yet answered
  promise,        \* the fetchToken() promise of each exchange
  procs,          \* the callers: where each is in its call, and its outcome
  inv,            \* the last operation on the token manager, if invalidateToken
  cacheMeta,      \* when the cached token was issued and received
  registry,       \* CarrierRegistry.carriers, in insertion order
  shop            \* the call of the ShippingService in progress

\* The token manager, its callers and what is noted of them.
tokenVars == <<now, cache, pendingRefresh, exchangesSent, outstanding, promise,
               procs, inv, cacheMeta>>
\* The registry and the ShippingService.
serviceVars == <<registry, shop>>
vars == <<now, cache, pendingRefresh, exchangesSent, outstanding, promise,
          procs, inv, cacheMeta, registry, shop>>

\* private cache: TokenCache | null = null
NoCache == [present |-> FALSE, accessToken |-> 0, expiresAt |-> Num(0)]
TokenCache(accessToken, expiresAt) ==
  [present |-> TRUE, accessToken |-> accessToken, expiresAt |-> expiresAt]

NoMeta == [issuedAt |-> 0, receivedAt |-> 0, expiresIn |-> Num(0)]

NoError == CarrierError("", <<>>, NoStatus, NoCarrier, NoUpstream, FALSE)

\* A promise: not created yet (or no longer referenced), pending (sentAt:
\* when its exchange was sent), fulfilled with a token or rejected with an
\* error.
NoPromise == [state |-> "none", value |-> 0, reason |-> NoError, sentAt |-> 0]
PendingPromise(t) ==
  [state |-> "pending", value |-> 0, reason |-> NoError, sentAt |-> t]
Fulfilled(token) ==
  [state |-> "fulfilled", value |-> token, reason |-> NoError, sentAt |-> 0]
Rejected(error) ==
  [state |-> "rejected", value |-> 0, reason |-> error, sentAt |-> 0]
Settled(e) == promise[e].state \in {"fulfilled", "rejected"}

\* The outcome of a call: quotes tells that it is a RateResponse, whose quotes
\* are rates.
NoResult ==
  [ok |-> FALSE, token |-> 0, error |-> NoError, quotes |-> FALSE,
   rates |-> <<>>]

\* What is noted of the last invalidateToken call (not read by the code):
\* kind: whether an exchange was outstanding ("inflight") and, if none was,
\* whether the token dropped was still valid ("idleValid", "idleStale");
\* token: the token the rating endpoint rejected (0 for a direct call); next,
\* served: how the first getAccessToken call after it takes its token
\* ("cache", "leader", "follower") and the token it reads from the cache.
\* The note is dropped by the step after that call.
NotInvalidated == [kind |-> "none", token |-> 0, next |-> "none", served |-> 0]

\* A caller.  pc: "idle", "acquire" (awaiting the token), "send" (awaiting the
\* rating response), "done"; op: the operation it called; src: where its
\* getAccessToken call takes the token from ("cache", or the exchange `joined`
\* as its "leader" or as a "follower"); held: the token read from the cache;
\* bearer: the token sent with the rating request; tokenCalls, sends: the
\* getAccessToken calls and rating requests of this call; path: the stages
\* of UpsRatingOperation.execute entered so far, in the order of entry;
\* request: the RateRequest of getRates; url, upsRequest: the endpoint and
\* the wire request execute built from it; wire: what httpClient.post of the rating request met, a transport failure
\* or the body of a 2xx response.
NoWire ==
  [kind |-> "none", failure |-> PlainFailure,
   data |-> [shape |-> "", rated |-> <<>>]]
IdleProc ==
  [pc |-> "idle", op |-> "none", src |-> "none", joined |-> 0, held |-> 0,
   bearer |-> 0, tokenCalls |-> 0, sends |-> 0, path |-> <<>>,
   request |-> NoRequest, url |-> "", upsRequest |-> NoUpsRequest,
   wire |-> NoWire, result |-> NoResult]

\* A call of the ShippingService.  pc: "idle", "waiting" (for the carrier
\* calls), "done"; op: "shopRates" or "getRates", or "register" when the
\* last call was registry.register(carriers[1]) (noted, not read by the
\* code); asked: the carrier name getRates was called with; carriers: the
\* clients the call went to (registry.getAll(), or the one client of
\* getRates); calls:
\* the promise of each mock client's getRates; results: what
\* Promise.allSettled gave, one entry per carrier; quotes, errors: the
\* ShippingRateResult; failed, error: the error the call threw.
IdleShop ==
  [pc |-> "idle", op |-> "none", asked |-> "", carriers |-> <<>>,
   calls |-> <<>>,
   results |-> <<>>, quotes |-> <<>>, errors |-> <<>>, failed |-> FALSE,
   error |-> NoError]

Init ==
  /\ registry = <<>>
  /\ shop = IdleShop
  /\ now = 0
  /\ cache = NoCache
  /\ pendingRefresh = 0
  /\ exchangesSent = 0
  /\ outstanding = {}
  /\ promise = [e \in ExchangeIds |-> NoPromise]
  /\ procs = [p \in Procs |-> IdleProc]
  /\ inv = NotInvalidated
  /\ cacheMeta = NoMeta

\* ------------------------------------------------------- UpsAuthenticator
\* A token manager that never trusts its cache.
CacheValidNever == FALSE

\* A token manager that does not look at the expiry time.
CacheValidIgnoringExpiry == cache.present

\* this.cache && Date.now() < this.cache.expiresAt
CacheValid == cache.present /\ JsLess(Num(now), cache.expiresAt)

\* The OAuth endpoint's answers.  A 2xx answer carries a body: none at all,
\* or access_token (0 when the field is missing or empty) and expires_in (the
\* characters of the string; <<>> when the field is missing).
OAuthBody(hasBody, access_token, expires_in) ==
  [kind |-> "response", hasBody |-> hasBody, access_token |-> access_token,
   expires_in |-> expires_in, failure |-> PlainFailure]
OAuthFailure(f) ==
  [kind |-> "failure", hasBody |-> FALSE, access_token |-> 0,
   expires_in |-> <<>>, failure |-> f]

ExpiresInWire ==
  {<<"1">>, <<"6", "0">>, <<"6", "1">>, <<"6", "1", "s">>, <<>>}
\* The lifetimes tried where the clock is not what is looked at: a token
\* that is expired when cached, and one that is valid for a second.
CoreExpiresIn == {<<"6", "0">>, <<"6", "1">>}

\* Each successful exchange issues a token of its own: the token of exchange
\* e is e.
OAuthAnswers(e, lifetimes, failures) ==
  {OAuthBody(TRUE, e, x) : x \in lifetimes}
  \cup {OAuthBody(TRUE, 0, <<"6", "1">>)}
  \cup {OAuthFailure(f) : f \in failures}

\* Every cause of a failed exchange.
AllOAuthAnswers(e) ==
  OAuthAnswers(e, {<<"6", "1">>}, TransportFailures)
    \cup {OAuthBody(FALSE, 0, <<>>)}

MissingAccessToken ==
  CarrierError("AUTHENTICATION_ERROR",
               <<"UPS OAuth response missing access_token">>,
               NoStatus, "UPS", NoUpstream, TRUE)

\* A catch block that rethrows whatever was thrown.
fetchTokenRethrow(error) == error

\* The catch block of fetchToken, given what was thrown in its try block.
fetchTokenCatch(error) ==
  IF error.code = "AUTHENTICATION_ERROR" THEN error
  ELSE CarrierError("AUTHENTICATION_ERROR",
                    <<"UPS authentication failed: ">> \o error.message,
                    NoStatus, "UPS", NoUpstream, TRUE)

\* A TypeError (reading a field of an undefined body) is no CarrierError: the
\* catch block sees only its message.
TypeErrorThrown ==
  CarrierError("TypeError", <<"Cannot destructure property">>, NoStatus,
               NoCarrier, NoUpstream, FALSE)

\* An expiry time computed without the safety buffer.
ExpiresAtNoBuffer(expires_in) ==
  JsAdd(Num(now), JsMul(ParseInt(expires_in), Num(MsPerSecond)))

\* expiresAt: Date.now() + expiresInMs - TOKEN_EXPIRY_BUFFER_MS
ExpiresAt(expires_in) ==
  LET expiresInMs == JsMul(ParseInt(expires_in), Num(MsPerSecond)) IN
  JsAdd(JsAdd(Num(now), expiresInMs), Num(-TOKEN_EXPIRY_BUFFER_MS))

\* fetchToken from the answer of the endpoint on: the promise it settles and
\* the cache it leaves.
fetchToken(answer) ==
  IF answer.kind = "failure" THEN
    [settle |-> Rejected(fetchTokenCatch(translateError(answer.failure))),
     cache |-> cache]
  ELSE IF ~answer.hasBody THEN
    [settle |-> Rejected(fetchTokenCatch(TypeErrorThrown)), cache |-> cache]
  ELSE IF answer.access_token = 0 THEN
    [settle |-> Rejected(fetchTokenCatch(MissingAccessToken)), cache |-> cache]
  ELSE
    [settle |-> Fulfilled(answer.access_token),
     cache |-> TokenCache(answer.access_token, ExpiresAt(answer.expires_in))]

\* A token manager that never shares the refresh in flight.
JoinsPendingNever == FALSE

\* if (this.pendingRefresh) return this.pendingRefresh;
JoinsPending == pendingRefresh # 0

\* A caller has a continuation to run when the promise it awaits is settled.
\* The leader's continuation was attached to the fetchToken() promise first
\* (await this.pendingRefresh, at the call), a follower's later (return
\* this.pendingRefresh resolves the follower's own promise with it), so the
\* leader's finally block runs before any follower resumes.
LeaderWaiting(e) ==
  \E q \in Procs : /\ procs[q].pc = "acquire"
                   /\ procs[q].src = "leader"
                   /\ procs[q].joined = e

Runnable(p) ==
  /\ procs[p].pc = "acquire"
  /\ \/ procs[p].src = "cache"
     \/ procs[p].src = "leader" /\ Settled(procs[p].joined)
     \/ /\ procs[p].src = "follower"
        /\ Settled(procs[p].joined)
        /\ ~LeaderWaiting(procs[p].joined)

\* No microtask is left: the next caller script, timer or I/O callback runs.
Quiescent == \A p \in Procs : ~Runnable(p)

\* The caller p, having called getAccessToken in operation op.
\* execute builds the wire request (buildUpsRateRequest) before it asks for
\* the token.
Called(p, op, request) ==
  [procs[p] EXCEPT !.pc = "acquire", !.op = op, !.tokenCalls = @ + 1,
     !.request = request,
     !.url = IF op = "rates" THEN requestOption(request) ELSE "",
     !.upsRequest = IF op = "rates" THEN buildUpsRateRequest(request)
                    ELSE NoUpsRequest,
     !.path = IF op = "rates" THEN <<"BUILD_REQUEST", "ACQUIRE_TOKEN">>
              ELSE <<>>]

\* The note of the last invalidateToken call after a getAccessToken call
\* served in the way `next` with the cached token `served`.
NotedCall(next, served) ==
  IF inv.kind # "none" /\ inv.next = "none"
  THEN [inv EXCEPT !.next = next, !.served = served]
  ELSE NotInvalidated

\* The note after a step that is no call of the token manager.
NoteKept == IF inv.next = "none" THEN inv ELSE NotInvalidated

\* getAccessToken up to its first suspension point, called by p.
getAccessToken(p, op, request) ==
  /\ IF CacheValid THEN
       /\ procs' = [procs EXCEPT ![p] =
            [Called(p, op, request) EXCEPT !.src = "cache",
                                           !.held = cache.accessToken]]
       /\ UNCHANGED <<pendingRefresh, exchangesSent, outstanding, promise>>
     ELSE IF JoinsPending THEN
       /\ procs' = [procs EXCEPT ![p] =
            [Called(p, op, request) EXCEPT !.src = "follower",
                                           !.joined = pendingRefresh]]
       /\ UNCHANGED <<pendingRefresh, exchangesSent, outstanding, promise>>
     ELSE
       \* this.pendingRefresh = this.fetchToken(): the exchange is sent
       /\ exchangesSent < MaxExchanges
       /\ LET e == exchangesSent + 1 IN
          /\ exchangesSent' = e
          /\ outstanding' = outstanding \cup {e}
          /\ promise' = [promise EXCEPT ![e] = PendingPromise(now)]
          /\ pendingRefresh' = e
          /\ procs' = [procs EXCEPT ![p] =
               [Called(p, op, request) EXCEPT !.src = "leader",
                                              !.joined = e]]
  /\ inv' = NotedCall(procs'[p].src, procs'[p].held)
  /\ UNCHANGED <<now, cache, cacheMeta>>

\* A caller calls getAccessToken on the token manager.
CallGetAccessToken(p) ==
  /\ Quiescent
  /\ procs[p].pc = "idle"
  /\ getAccessToken(p, "token", NoRequest)

\* An invalidateToken that leaves the cache as it is.
invalidateTokenKeeps == cache

\* invalidateToken(): this.cache = null
invalidateToken == NoCache

\* The note an invalidateToken call leaves (not read by the code).
NotedInvalidate(rejected) ==
  [kind |-> IF outstanding # {} THEN "inflight"
            ELSE IF cache.present /\ ~cache.expiresAt.nan
                      /\ now < cache.expiresAt.v
                 THEN "idleValid"
            ELSE "idleStale",
   token |-> rejected, next |-> "none", served |-> 0]

\* An invalidateToken that forgets the refresh in flight as well.
InvalidateTokenAndSlot ==
  /\ Quiescent
  /\ cache' = NoCache
  /\ pendingRefresh' = 0
  /\ cacheMeta' = IF cache' = cache THEN cacheMeta ELSE NoMeta
  /\ inv' = NotedInvalidate(0)
  /\ UNCHANGED <<now, exchangesSent, outstanding, promise, procs>>

\* A caller calls invalidateToken on the token manager.
InvalidateToken ==
  /\ Quiescent
  /\ cache' = invalidateToken
  /\ cacheMeta' = IF cache' = cache THEN cacheMeta ELSE NoMeta
  /\ inv' = NotedInvalidate(0)
  /\ UNCHANGED <<now, pendingRefresh, exchangesSent, outstanding, promise,
                 procs>>

\* The instants at which the token of exchange e may have been issued: now,
\* or a second ago when the request had been sent by then.
IssueTimes(e) ==
  {t \in {now - MsPerSecond, now} : promise[e].sentAt <= t}

\* The credential endpoint answers exchange e: the rest of fetchToken runs.
OAuthResponds(e, answer, issuedAt) ==
  /\ Quiescent
  /\ e \in outstanding
  /\ LET r == fetchToken(answer) IN
     /\ promise' = [promise EXCEPT ![e] = r.settle]
     /\ cache' = r.cache
     /\ cacheMeta' =
          IF r.settle.state = "fulfilled"
          THEN [issuedAt |-> issuedAt, receivedAt |-> now,
                expiresIn |-> ParseInt(answer.expires_in)]
          ELSE cacheMeta
  /\ outstanding' = outstanding \ {e}
  /\ inv' = NoteKept
  /\ UNCHANGED <<now, pendingRefresh, exchangesSent, procs>>

Failed(error) ==
  [ok |-> FALSE, token |-> 0, error |-> error, quotes |-> FALSE,
   rates |-> <<>>]
GotToken(token) ==
  [ok |-> TRUE, token |-> token, error |-> NoError, quotes |-> FALSE,
   rates |-> <<>>]
GotQuotes(token, rates) ==
  [ok |-> TRUE, token |-> token, error |-> NoError, quotes |-> TRUE,
   rates |-> rates]

\* A delivery that wraps the failure again for each caller that shared the
\* refresh.
DeliveredRewrapped(p, s) ==
  LET me == procs[p] IN
  IF s.state = "rejected" THEN
    [me EXCEPT !.pc = "done",
       !.result = Failed(IF me.src = "follower"
                         THEN [s.reason EXCEPT !.message = <<"again: ">> \o @]
                         ELSE s.reason)]
  ELSE IF me.op = "token" THEN
    [me EXCEPT !.pc = "done", !.result = GotToken(s.value)]
  ELSE
    [me EXCEPT !.pc = "send", !.bearer = s.value, !.sends = @ + 1,
       !.path = @ \o <<"SEND">>]

\* A rating operation that sends its request although it got no token.
DeliveredSendsAnyway(p, s) ==
  LET me == procs[p] IN
  IF me.op = "token" THEN
    IF s.state = "rejected"
    THEN [me EXCEPT !.pc = "done", !.result = Failed(s.reason)]
    ELSE [me EXCEPT !.pc = "done", !.result = GotToken(s.value)]
  ELSE
    [me EXCEPT !.pc = "send", !.bearer = s.value, !.sends = @ + 1,
       !.path = @ \o <<"SEND">>]

\* UpsRatingOperation.execute after `token = await this.auth.getAccessToken()`
\* for a getRates caller, the caller's own continuation for a getAccessToken
\* caller.  s is the settled promise the caller awaited.
Delivered(p, s) ==
  LET me == procs[p] IN
  IF s.state = "rejected" THEN
    \* catch (error) { if (error instanceof CarrierError) throw error; ... }
    [me EXCEPT !.pc = "done", !.result = Failed(s.reason)]
  ELSE IF me.op = "token" THEN
    [me EXCEPT !.pc = "done", !.result = GotToken(s.value)]
  ELSE
    \* this.httpClient.post(url, upsRequest, {Authorization: Bearer token})
    [me EXCEPT !.pc = "send", !.bearer = s.value, !.sends = @ + 1,
       !.path = @ \o <<"SEND">>]

\* The caller whose call found a valid token in the cache gets it.
CachedResumes(p) ==
  /\ procs[p].pc = "acquire"
  /\ procs[p].src = "cache"
  /\ procs' = [procs EXCEPT ![p] = Delivered(p, Fulfilled(procs[p].held))]
  /\ inv' = NoteKept
  /\ UNCHANGED <<now, cache, pendingRefresh, exchangesSent, outstanding,
                 promise, cacheMeta>>

\* A leader that clears the slot only when its refresh succeeded.
LeaderResumesClearsOnSuccess(p) ==
  /\ procs[p].pc = "acquire"
  /\ procs[p].src = "leader"
  /\ Settled(procs[p].joined)
  /\ pendingRefresh' = IF promise[procs[p].joined].state = "rejected"
                       THEN pendingRefresh ELSE 0
  /\ procs' = [procs EXCEPT ![p] = Delivered(p, promise[procs[p].joined])]
  /\ inv' = NoteKept
  /\ UNCHANGED <<now, cache, exchangesSent, outstanding, promise, cacheMeta>>

\* try { return await this.pendingRefresh } finally { this.pendingRefresh = null }
LeaderResumes(p) ==
  /\ procs[p].pc = "acquire"
  /\ procs[p].src = "leader"
  /\ Settled(procs[p].joined)
  /\ pendingRefresh' = 0
  /\ procs' = [procs EXCEPT ![p] = Delivered(p, promise[procs[p].joined])]
  /\ inv' = NoteKept
  /\ UNCHANGED <<now, cache, exchangesSent, outstanding, promise, cacheMeta>>

\* A follower that is resumed only when the exchange it joined succeeded.
FollowerResumesOnSuccess(p) ==
  /\ procs[p].pc = "acquire"
  /\ procs[p].src = "follower"
  /\ Settled(procs[p].joined)
  /\ promise[procs[p].joined].state = "fulfilled"
  /\ ~LeaderWaiting(procs[p].joined)
  /\ procs' = [procs EXCEPT ![p] = Delivered(p, promise[procs[p].joined])]
  /\ inv' = NoteKept
  /\ UNCHANGED <<now, cache, pendingRefresh, exchangesSent, outstanding,
                 promise, cacheMeta>>

\* A caller that returned the pending promise gets what it settled to.
FollowerResumes(p) ==
  /\ procs[p].pc = "acquire"
  /\ procs[p].src = "follower"
  /\ Settled(procs[p].joined)
  /\ ~LeaderWaiting(procs[p].joined)
  /\ procs' = [procs EXCEPT ![p] = Delivered(p, promise[procs[p].joined])]
  /\ inv' = NoteKept
  /\ UNCHANGED <<now, cache, pendingRefresh, exchangesSent, outstanding,
                 promise, cacheMeta>>

\* ------------------------------------------------------ UpsCarrierClient
ValidationError ==
  CarrierError("VALIDATION_ERROR", <<"Invalid rate request: ">>, NoStatus,
               "UPS", NoUpstream, FALSE)

\* A carrier client that asks for the token before it looks at the request.
CallGetRatesLateValidation(p, request) ==
  /\ Quiescent
  /\ procs[p].pc = "idle"
  /\ IF RateRequestSchema(request) THEN getAccessToken(p, "rates", request)
     ELSE /\ exchangesSent < MaxExchanges
          /\ exchangesSent' = exchangesSent + 1
          /\ outstanding' = outstanding \cup {exchangesSent'}
          /\ promise' = [promise EXCEPT ![exchangesSent'] = PendingPromise(now)]
          /\ pendingRefresh' = exchangesSent'
          /\ procs' = [procs EXCEPT ![p] =
                 [@ EXCEPT !.pc = "done", !.op = "rates",
                    !.request = request,
                    !.result = Failed(ValidationError)]]
          /\ inv' = NoteKept
          /\ UNCHANGED <<now, cache, cacheMeta>>

\* getRates(request): RateRequestSchema.safeParse(request), then
\* ratingOperation.execute(request), which asks for the token first.
CallGetRates(p, request) ==
  /\ Quiescent
  /\ procs[p].pc = "idle"
  /\ IF RateRequestSchema(request) THEN getAccessToken(p, "rates", request)
     ELSE /\ procs' = [procs EXCEPT ![p] =
                 [@ EXCEPT !.pc = "done", !.op = "rates",
                    !.request = request,
                    !.result = Failed(ValidationError)]]
          /\ inv' = NoteKept
          /\ UNCHANGED <<now, cache, pendingRefresh, exchangesSent,
                         outstanding, promise, cacheMeta>>

\* ---------------------------------------------------- UpsRatingOperation
\* The rating endpoint's answers: a transport failure, or a 2xx body.
\* A body is known by its shape and the records of its RatedShipment array.
\* shape: "text" (no structured data: a string that is no JSON), "empty" (no
\* body at all), "noEnvelope" (an object without RateResponse),
\* "noRatedShipment" (an envelope without RatedShipment), "notArray" (an
\* envelope whose RatedShipment is one object), "quotes" (an envelope with a
\* RatedShipment array).
Body(shape, rated) == [shape |-> shape, rated |-> rated]
\* A record of the array: Service.Code, Service.Description (Undefined
\* when the record has none), TotalCharges.MonetaryValue,
\* BillingWeight.UnitOfMeasurement.Code, and the member the record lacks
\* ("" when it has them all).
RatedShipment(code, value, unit, lacks) ==
  [Code |-> code, Description |-> Undefined, MonetaryValue |-> value,
   Unit |-> unit, lacks |-> lacks]
\* The record with Service.Description
Described(rated, description) == [rated EXCEPT !.Description = description]
Rated(code, value) == RatedShipment(code, value, "LBS", "")
\* The records of the bodies tried where the quotes are not looked at.
OneRated == <<Rated("03", <<"1", "1", ".", "3", "0">>)>>
\* A record without BillingWeight.
BadRated == RatedShipment("03", <<"1", "1", ".", "3", "0">>, "", "BillingWeight")

\* The unit codes a carrier record is tried with: those of the table, codes
\* it does not hold, and names every JavaScript object has.
UnitCodes ==
  {"LBS", "KGS", "OZS", "XXX", "LB", "lbs", "", "constructor", "toString"}
\* The service codes and descriptions a carrier record is tried with: a
\* code of UPS_SERVICE_CODES, codes it does not hold, and a name every
\* JavaScript object has; no description, an empty one, the one of the
\* table for code 03 and another.
RatedServiceCodes == {"03", "99", "", "constructor"}
Descriptions == {Undefined, "", "UPS Ground", "Ground Saver"}

RatedMembers ==
  {"Service", "BillingWeight", "TotalCharges", "TransportationCharges"}
RatedLists ==
  {<<RatedShipment("03", <<"1", "1", ".", "3", "0">>, u, "")>> :
     u \in UnitCodes}
  \cup {<<RatedShipment("03", <<"1", "1", ".", "3", "0">>, "LBS", m)>> :
          m \in RatedMembers}
  \cup {<<Rated("03", <<"2", ".", "0", "0">>),
          RatedShipment("12", <<"1", ".", "5", "0">>, u, m)>> :
          u \in {"KGS", "XXX"}, m \in {"", "TotalCharges"}}
  \cup {<<RatedShipment("03", <<"2", ".", "0", "0">>, "LBS", "Service"),
          RatedShipment("12", <<"1", ".", "5", "0">>, "XXX", "")>>}
  \cup {<<Described(Rated(c, <<"1", "1", ".", "3", "0">>), d)>> :
          c \in RatedServiceCodes, d \in Descriptions}
BodyShapes ==
  {"text", "empty", "noEnvelope", "noRatedShipment", "notArray", "quotes"}
RatingData ==
  {Body(shape, OneRated) : shape \in BodyShapes}
    \cup {Body("quotes", r) : r \in RatedLists}
\* The bodies tried with many concurrent callers: one that parses, one that
\* parseResponse rejects itself, one whose record makes the mapper throw.
CoreData ==
  {Body("quotes", OneRated), Body("noEnvelope", OneRated),
   Body("quotes", <<BadRated>>)}
RatingAnswers(failures, bodies) ==
  {[kind |-> "failure", failure |-> f, data |-> Body("", <<>>)] :
     f \in failures}
  \cup {[kind |-> "response", failure |-> PlainFailure, data |-> d] :
          d \in bodies}

\* A ParseError that invites the caller to try again.
ParseErrorRetryable(message) ==
  CarrierError("PARSE_ERROR", message, NoStatus, "UPS", NoUpstream, TRUE)

ParseError(message) ==
  CarrierError("PARSE_ERROR", message, NoStatus, "UPS", NoUpstream, FALSE)

\* The TypeError of reading the member prop of a member that is missing.
TypeErrorReading(prop) ==
  CarrierError("TypeError",
               <<"Cannot read properties of undefined (reading '", prop, "')">>,
               NoStatus, NoCarrier, NoUpstream, FALSE)

\* A RateQuote, as far as it is looked at: the carrier, the service code,
\* the service name (the parts of the text), totalCharges.amount and
\* billingWeight.unit.
RateQuote(carrier, serviceCode, amount) ==
  [carrier |-> carrier, serviceCode |-> serviceCode,
   serviceName |-> <<carrier, " ", serviceCode>>, amount |-> amount,
   unit |-> "LB"]

\* rated.Service.Description || UPS_SERVICE_CODES[serviceCode]
\*   || `UPS Service ${serviceCode}`
serviceName(rated) ==
  LET entry == Lookup(UPS_SERVICE_CODES, rated.Code) IN
  IF Truthy(rated.Description) THEN <<rated.Description>>
  ELSE IF Truthy(entry) THEN <<entry>>
  ELSE <<"UPS Service ", rated.Code>>

\* parseCharge(rated.TotalCharges).amount
parseCharge(MonetaryValue) == ParseFloat(MonetaryValue)

\* mapUpsRatedShipmentToQuote(rated): the exception it throws (NoError when
\* it throws none) and the quote it returns.  The members are read in the
\* order Service, BillingWeight, TotalCharges, TransportationCharges.
mapUpsRatedShipmentToQuote(rated) ==
  LET billingWeightUnit == Lookup(UPS_WEIGHT_UNIT_TO_DOMAIN, rated.Unit)
      thrown ==
        IF rated.lacks = "Service" THEN TypeErrorReading("Code")
        ELSE IF rated.lacks = "BillingWeight" THEN
          TypeErrorReading("UnitOfMeasurement")
        ELSE IF billingWeightUnit = Undefined THEN
          ParseError(<<"Unknown UPS weight unit: ", rated.Unit>>)
        ELSE IF rated.lacks \in {"TotalCharges", "TransportationCharges"} THEN
          TypeErrorReading("CurrencyCode")
        ELSE NoError
  IN [thrown |-> thrown,
      quote |-> [RateQuote("UPS", rated.Code, parseCharge(rated.MonetaryValue))
                   EXCEPT !.serviceName = serviceName(rated),
                          !.unit = billingWeightUnit]]

\* ratedShipments.map(mapUpsRatedShipmentToQuote)
Mapped(rated) ==
  [i \in 1..Len(rated) |-> mapUpsRatedShipmentToQuote(rated[i])]
\* The first record on which the mapper throws, 0 when it throws on none.
FirstThrown(mapped) ==
  LET bad == {i \in 1..Len(mapped) : mapped[i].thrown # NoError} IN
  IF bad = {} THEN 0 ELSE CHOOSE i \in bad : \A j \in bad : i <= j

\* A parseResponse that lets the exception of a malformed record through.
parseResponseUnwrapped(p, data) ==
  IF data.shape \in {"text", "empty", "noEnvelope"} THEN
    Failed(ParseError(<<"UPS response missing ", "RateResponse", " envelope">>))
  ELSE IF data.shape \in {"noRatedShipment", "notArray"} THEN
    Failed(ParseError(<<"UPS response missing or invalid ", "RatedShipment",
                        " array">>))
  ELSE
    LET mapped == Mapped(data.rated)
        bad == FirstThrown(mapped)
    IN IF bad # 0 THEN Failed(mapped[bad].thrown)
       ELSE GotQuotes(procs[p].bearer,
                      [i \in 1..Len(mapped) |-> mapped[i].quote])

\* A parseResponse that returns the quotes of the records before the first
\* one the mapper throws on.
parseResponsePartial(p, data) ==
  IF data.shape \in {"text", "empty", "noEnvelope"} THEN
    Failed(ParseError(<<"UPS response missing ", "RateResponse", " envelope">>))
  ELSE IF data.shape \in {"noRatedShipment", "notArray"} THEN
    Failed(ParseError(<<"UPS response missing or invalid ", "RatedShipment",
                        " array">>))
  ELSE
    LET mapped == Mapped(data.rated)
        bad == FirstThrown(mapped)
        n == IF bad = 0 THEN Len(mapped) ELSE bad - 1
    IN GotQuotes(procs[p].bearer, [i \in 1..n |-> mapped[i].quote])

\* parseResponse(data): the quotes, or the ParseError thrown.
parseResponse(p, data) ==
  \* const rateResponse = data?.RateResponse; if (!rateResponse) throw
  IF data.shape \in {"text", "empty", "noEnvelope"} THEN
    Failed(ParseError(<<"UPS response missing ", "RateResponse", " envelope">>))
  \* if (!ratedShipments || !Array.isArray(ratedShipments)) throw
  ELSE IF data.shape \in {"noRatedShipment", "notArray"} THEN
    Failed(ParseError(<<"UPS response missing or invalid ", "RatedShipment",
                        " array">>))
  ELSE
    LET mapped == Mapped(data.rated)
        bad == FirstThrown(mapped)
    IN IF bad # 0 THEN
         \* catch (error): a CarrierError is thrown on, anything else wrapped
         Failed(IF IsCarrierError(mapped[bad].thrown) THEN mapped[bad].thrown
                ELSE ParseError(<<"Failed to parse UPS rate response: ">>
                                  \o mapped[bad].thrown.message))
       ELSE GotQuotes(procs[p].bearer,
                      [i \in 1..Len(mapped) |-> mapped[i].quote])

\* A catch block that leaves the rejected token in the cache.
executeCatchKeeps(error) == cache

\* A catch block that clears the token whatever the failure.
executeCatchClears(error) == invalidateToken

\* The catch block around the rating call clears the token on an
\* AuthenticationError: what it leaves in the cache.
executeCatchCache(error) ==
  IF error.code = "AUTHENTICATION_ERROR" THEN invalidateToken ELSE cache

\* A catch block that throws a new error of the same kind for the carrier.
executeCatchRewrapped(error) ==
  CarrierError(error.code, error.message, NoStatus, "UPS", NoUpstream,
               error.retryable)

\* execute, catch of the rating call: error.details.carrier = "UPS"; throw
\* error
executeCatchThrown(error) == [error EXCEPT !.carrier = "UPS"]

\* A rating operation that sends its request again when the token is
\* rejected.
RatingRespondsRetrying(p, answer) ==
  /\ Quiescent
  /\ procs[p].pc = "send"
  /\ IF answer.kind = "failure" THEN
       LET error == translateError(answer.failure) IN
       /\ cache' = executeCatchCache(error)
       /\ inv' = IF error.code = "AUTHENTICATION_ERROR"
                 THEN NotedInvalidate(procs[p].bearer) ELSE NoteKept
       /\ procs' = [procs EXCEPT ![p] =
            IF error.code = "AUTHENTICATION_ERROR"
            THEN [@ EXCEPT !.sends = @ + 1]
            ELSE [@ EXCEPT !.pc = "done", !.wire = answer,
                    !.result = Failed([error EXCEPT !.carrier = "UPS"])]]
     ELSE
       /\ procs' = [procs EXCEPT ![p] =
            LET parsed == parseResponse(p, answer.data) IN
            [@ EXCEPT !.pc = "done", !.wire = answer, !.result = parsed,
               !.path = @ \o (IF parsed.ok THEN <<"PARSE", "DONE">>
                              ELSE <<"PARSE">>)]]
       /\ inv' = NoteKept
       /\ UNCHANGED cache
  /\ cacheMeta' = IF cache' = cache THEN cacheMeta ELSE NoMeta
  /\ UNCHANGED <<now, pendingRefresh, exchangesSent, outstanding, promise>>

\* The rating endpoint answers p's request: the rest of execute runs.
RatingResponds(p, answer) ==
  /\ Quiescent
  /\ procs[p].pc = "send"
  /\ IF answer.kind = "failure" THEN
       LET error == translateError(answer.failure) IN
       /\ cache' = executeCatchCache(error)
       /\ inv' = IF error.code = "AUTHENTICATION_ERROR"
                 THEN NotedInvalidate(procs[p].bearer) ELSE NoteKept
       /\ procs' = [procs EXCEPT ![p] =
            [@ EXCEPT !.pc = "done", !.wire = answer,
               !.result = Failed(executeCatchThrown(error))]]
     ELSE
       /\ procs' = [procs EXCEPT ![p] =
            LET parsed == parseResponse(p, answer.data) IN
            [@ EXCEPT !.pc = "done", !.wire = answer, !.result = parsed,
               !.path = @ \o (IF parsed.ok THEN <<"PARSE", "DONE">>
                              ELSE <<"PARSE">>)]]
       /\ inv' = NoteKept
       /\ UNCHANGED cache
  /\ cacheMeta' = IF cache' = cache THEN cacheMeta ELSE NoMeta
  /\ UNCHANGED <<now, pendingRefresh, exchangesSent, outstanding, promise>>

\* ------------------------------------------------------------ environment
\* Whether another caller still holds the promise of exchange e.
Referenced(e, p) ==
  \E q \in Procs \ {p} : procs[q].pc # "idle" /\ procs[q].joined = e

\* The caller has its outcome and is free to call again; a settled promise
\* nobody holds any more is dropped.
Return(p) ==
  /\ procs[p].pc = "done"
  /\ procs' = [procs EXCEPT ![p] = IdleProc]
  /\ promise' = [e \in ExchangeIds |->
       IF e = procs[p].joined /\ ~Referenced(e, p) THEN NoPromise
       ELSE promise[e]]
  /\ inv' = NoteKept
  /\ UNCHANGED <<now, cache, pendingRefresh, exchangesSent, outstanding,
                 cacheMeta>>

\* A second passes.
Tick ==
  /\ Quiescent
  /\ now < MaxSeconds * MsPerSecond
  /\ now' = now + MsPerSecond
  /\ inv' = NoteKept
  /\ UNCHANGED <<cache, pendingRefresh, exchangesSent, outstanding, promise,
                 procs, cacheMeta>>

\* -------------------------------------------------------- CarrierRegistry
\* The caller through which the ShippingService calls the UPS client.
UpsProc == 1

\* The clients that get registered: the UpsCarrierClient, and clients of
\* other carriers, of which only the outcomes of getRates are known.
\* no tells the client objects of one name apart.
UpsClient == [name |-> "UPS", impl |-> "ups", no |-> 1]
MockClientNo(name, no) == [name |-> name, impl |-> "mock", no |-> no]
MockClient(name) == MockClientNo(name, 1)
NoClient == [name |-> "", impl |-> "none", no |-> 0]
\* The clients tried where the registry itself is looked at: two client
\* objects for each name but UPS.
AllClients ==
  {UpsClient} \cup {MockClientNo(n, k) : n \in {"FEDEX", "USPS", "DHL"},
                                         k \in 1..2}
\* type CarrierName
CarrierNames == {"UPS", "FEDEX", "USPS", "DHL"}
MockNames == {"FEDEX", "USPS"}

\* this.carriers.has(name)
has(name) == \E i \in 1..Len(registry) : registry[i].name = name

\* A registry that keeps a list of the clients registered.
registerAppend(carrier) == Append(registry, carrier)

\* this.carriers.set(carrier.name, carrier): a Map keeps the place of a key
\* it already holds.
register(carrier) ==
  IF has(carrier.name)
  THEN [i \in 1..Len(registry) |->
          IF registry[i].name = carrier.name THEN carrier ELSE registry[i]]
  ELSE Append(registry, carrier)

\* this.carriers.get(name)
registryGet(name) ==
  IF has(name)
  THEN registry[CHOOSE i \in 1..Len(registry) : registry[i].name = name]
  ELSE NoClient

\* A listing that leaves out the client registered last.
getAllButLast == SubSeq(registry, 1, Len(registry) - 1)

\* Array.from(this.carriers.values())
getAll == registry

\* A client is registered (one UpsCarrierClient is ever created); the call
\* is noted.
Register(carrier) ==
  /\ shop.pc = "idle"
  /\ has(carrier.name) \/ Len(registry) < MaxCarriers
  /\ registry' = register(carrier)
  /\ shop' = [IdleShop EXCEPT !.op = "register", !.carriers = <<carrier>>]
  /\ UNCHANGED tokenVars

\* ------------------------------------------------------- ShippingService
\* The promise of one carrier's getRates.
PendingCall == [state |-> "pending", rates |-> <<>>, reason |-> NoError]
FulfilledCall(rates) ==
  [state |-> "fulfilled", rates |-> rates, reason |-> NoError]
RejectedCall(reason) ==
  [state |-> "rejected", rates |-> <<>>, reason |-> reason]

\* What the client of another carrier answers: quotes, a CarrierError naming
\* the carrier, or an exception that is no CarrierError.
MockRates(name) ==
  {<<RateQuote(name, "GROUND", Num(200))>>,
   <<RateQuote(name, "GROUND", Num(100)),
     RateQuote(name, "PRIORITY", Num(200))>>}
PlainError ==
  CarrierError("Error", <<"boom">>, NoStatus, NoCarrier, NoUpstream, FALSE)
MockErrors(name) ==
  {CarrierError("CARRIER_API_ERROR", <<name, " service unavailable">>,
                NoStatus, name, NoUpstream, TRUE),
   PlainError}
MockOutcomes(name) ==
  {FulfilledCall(r) : r \in MockRates(name)}
    \cup {RejectedCall(e) : e \in MockErrors(name)}

\* The bodies of the rating endpoint tried under the ShippingService: one
\* quote, two quotes, two quotes of which one has a charge that is no number.
UpsRatedLists ==
  {<<Rated("03", <<"2", ".", "0", "0">>)>>,
   <<Rated("03", <<"2", ".", "0", "0">>), Rated("12", <<"1", ".", "5", "0">>)>>,
   <<Rated("03", <<"2", ".", "0", "0">>), Rated("12", <<"N", "/", "A">>)>>}
ShopData ==
  {Body("quotes", r) : r \in UpsRatedLists}
    \cup {Body("noEnvelope", OneRated)}

\* The promise of the i-th carrier call of the call in progress: the UPS
\* client's is settled when its getRates has its outcome.
UpsOutcome ==
  LET me == procs[UpsProc] IN
  IF me.pc # "done" THEN PendingCall
  ELSE IF me.result.ok THEN FulfilledCall(me.result.rates)
  ELSE RejectedCall(me.result.error)
Outcome(i) ==
  IF shop.carriers[i].impl = "ups" THEN UpsOutcome ELSE shop.calls[i]
UsesUps == \E i \in 1..Len(shop.carriers) : shop.carriers[i].impl = "ups"

\* A join that is over as soon as one carrier call has settled.
AnySettled ==
  \E i \in 1..Len(shop.carriers) : Outcome(i).state # "pending"

\* await Promise.allSettled(...): every carrier call has settled.
AllSettled ==
  \A i \in 1..Len(shop.carriers) : Outcome(i).state # "pending"

\* A collection that stops at the first carrier that failed.
RECURSIVE QuotesUntilFailure(_, _)
QuotesUntilFailure(results, n) ==
  IF n = 0 THEN <<>>
  ELSE IF \E i \in 1..n : results[i].state = "rejected" THEN
    QuotesUntilFailure(results, n - 1)
  ELSE QuotesUntilFailure(results, n - 1) \o results[n].rates

\* for (const result of results): quotes.push(...result.value.response.quotes)
RECURSIVE QuotesOf(_, _)
QuotesOf(results, n) ==
  IF n = 0 THEN <<>>
  ELSE QuotesOf(results, n - 1)
         \o (IF results[n].state = "fulfilled" THEN results[n].rates
             ELSE <<>>)

\* The entry of errors for a rejection: a reason that is no CarrierError is
\* wrapped, and the carrier is the error's own, "UNKNOWN" when it has none.
\* An entry that never names a carrier.
ErrorEntryUnknownCarrier(reason) ==
  LET error == IF IsCarrierError(reason) THEN reason
               ELSE CarrierError("UNKNOWN_ERROR", reason.message, NoStatus,
                                 NoCarrier, NoUpstream, FALSE)
  IN [carrier |-> "UNKNOWN", error |-> error]

ErrorEntry(reason) ==
  LET error == IF IsCarrierError(reason) THEN reason
               ELSE CarrierError("UNKNOWN_ERROR", reason.message, NoStatus,
                                 NoCarrier, NoUpstream, FALSE)
  IN [carrier |-> IF error.carrier = NoCarrier THEN "UNKNOWN"
                  ELSE error.carrier,
      error |-> error]

\* A collection that keeps only the rejections that are CarrierErrors.
RECURSIVE CarrierErrorsOf(_, _)
CarrierErrorsOf(results, n) ==
  IF n = 0 THEN <<>>
  ELSE CarrierErrorsOf(results, n - 1)
         \o (IF results[n].state = "rejected" /\ IsCarrierError(results[n].reason)
             THEN <<ErrorEntry(results[n].reason)>> ELSE <<>>)

\* for (const result of results): errors.push({carrier, error})
RECURSIVE ErrorsOf(_, _)
ErrorsOf(results, n) ==
  IF n = 0 THEN <<>>
  ELSE ErrorsOf(results, n - 1)
         \o (IF results[n].state = "rejected"
             THEN <<ErrorEntry(results[n].reason)>> ELSE <<>>)

\* (a, b) => a.totalCharges.amount - b.totalCharges.amount, as sort reads
\* it: a result that is NaN counts as +0.
Compare(a, b) ==
  IF a.amount.nan \/ b.amount.nan THEN 0 ELSE a.amount.v - b.amount.v

\* The comparator is a consistent comparison function for the elements of
\* qs: "equal" and "less" are transitive and agree with each other.
Consistent(qs) ==
  \A i, j, k \in 1..Len(qs) :
    LET ab == Compare(qs[i], qs[j])
        bc == Compare(qs[j], qs[k])
        ac == Compare(qs[i], qs[k])
    IN /\ (ab = 0 /\ bc = 0) => ac = 0
       /\ (ab < 0 /\ bc < 0) => ac < 0
       /\ (ab = 0 /\ bc < 0) => ac < 0
       /\ (ab < 0 /\ bc = 0) => ac < 0

\* The stable sort, by insertion from the right.
RECURSIVE Insert(_, _)
Insert(sorted, q) ==
  IF sorted = <<>> THEN <<q>>
  ELSE IF Compare(q, sorted[Len(sorted)]) < 0 THEN
    Append(Insert(SubSeq(sorted, 1, Len(sorted) - 1), q), sorted[Len(sorted)])
  ELSE Append(sorted, q)

RECURSIVE StableSort(_, _)
StableSort(qs, n) ==
  IF n = 0 THEN <<>> ELSE Insert(StableSort(qs, n - 1), qs[n])

RECURSIVE Orders(_)
Orders(S) ==
  IF S = {} THEN {<<>>}
  ELSE UNION {{<<x>> \o pi : pi \in Orders(S \ {x})} : x \in S}

\* quotes.sort(comparator): Array.prototype.sort is stable and sorts by a
\* consistent comparator; with a comparator that is not consistent the order
\* is implementation-defined, any permutation of the elements.
Sorted(qs) ==
  IF Consistent(qs) THEN {StableSort(qs, Len(qs))}
  ELSE {[i \in 1..Len(qs) |-> qs[pi[i]]] : pi \in Orders(1..Len(qs))}

NoCarriersRegistered ==
  CarrierError("CONFIGURATION_ERROR", <<"No carriers registered">>, NoStatus,
               NoCarrier, NoUpstream, FALSE)

\* A lookup that says only that some carrier is not registered.
NotRegisteredUnnamed(carrier) ==
  CarrierError("CONFIGURATION_ERROR", <<"Carrier is not registered">>,
               NoStatus, carrier, NoUpstream, FALSE)

\* `Carrier "${carrier}" is not registered`
NotRegistered(carrier) ==
  CarrierError("CONFIGURATION_ERROR",
               <<"Carrier \"", carrier, "\" is not registered">>,
               NoStatus, carrier, NoUpstream, FALSE)

\* The carrier calls are launched: client.getRates(request) of every client
\* in `carriers`, in order, each up to its first suspension point.
Launched(op, asked, carriers, valid) ==
  /\ shop' = [IdleShop EXCEPT !.pc = "waiting", !.op = op, !.asked = asked,
                !.carriers = carriers,
                !.calls = [i \in 1..Len(carriers) |-> PendingCall]]
  /\ IF \E i \in 1..Len(carriers) : carriers[i].impl = "ups"
     THEN CallGetRates(UpsProc, CoreRequest(valid))
     ELSE UNCHANGED tokenVars

\* shopRates(request) up to the await of Promise.allSettled.
ShopRates(valid) ==
  /\ shop.pc = "idle"
  /\ LET carriers == getAll IN
     IF Len(carriers) = 0 THEN
       /\ shop' = [IdleShop EXCEPT !.pc = "done", !.op = "shopRates",
                     !.failed = TRUE, !.error = NoCarriersRegistered]
       /\ UNCHANGED tokenVars
     ELSE Launched("shopRates", "", carriers, valid)
  /\ UNCHANGED registry

\* Clients that share one token manager: the failure of any of them drops
\* the cached token.
MockSettlesSharedToken(i, outcome) ==
  /\ Quiescent
  /\ shop.pc = "waiting"
  /\ i \in 1..Len(shop.carriers)
  /\ shop.carriers[i].impl = "mock"
  /\ shop.calls[i].state = "pending"
  /\ shop' = [shop EXCEPT !.calls[i] = outcome]
  /\ cache' = IF outcome.state = "rejected" THEN invalidateToken ELSE cache
  /\ cacheMeta' = IF cache' = cache THEN cacheMeta ELSE NoMeta
  /\ UNCHANGED <<registry, now, pendingRefresh, exchangesSent, outstanding,
                 promise, procs, inv>>

\* The client of another carrier settles its getRates.
MockSettles(i, outcome) ==
  /\ Quiescent
  /\ shop.pc = "waiting"
  /\ i \in 1..Len(shop.carriers)
  /\ shop.carriers[i].impl = "mock"
  /\ shop.calls[i].state = "pending"
  /\ shop' = [shop EXCEPT !.calls[i] = outcome]
  /\ UNCHANGED <<registry, tokenVars>>

\* The UPS client's call has been consumed: its caller is free again.
UpsConsumed == IF UsesUps THEN Return(UpsProc) ELSE UNCHANGED tokenVars

\* shopRates after the await: the results are collected and sorted.
ShopRatesResumes ==
  /\ shop.pc = "waiting"
  /\ shop.op = "shopRates"
  /\ AllSettled
  /\ LET results == [i \in 1..Len(shop.carriers) |-> Outcome(i)] IN
     \E sorted \in Sorted(QuotesOf(results, Len(results))) :
       shop' = [shop EXCEPT !.pc = "done", !.results = results,
                  !.quotes = sorted,
                  !.errors = ErrorsOf(results, Len(results))]
  /\ UpsConsumed
  /\ UNCHANGED registry

\* ShippingService.getRates(carrier, request) up to the await.
ServiceGetRates(carrier, valid) ==
  /\ shop.pc = "idle"
  /\ LET client == registryGet(carrier) IN
     IF client = NoClient THEN
       /\ shop' = [IdleShop EXCEPT !.pc = "done", !.op = "getRates",
                     !.asked = carrier, !.failed = TRUE,
                     !.error = NotRegistered(carrier)]
       /\ UNCHANGED tokenVars
     ELSE Launched("getRates", carrier, <<client>>, valid)
  /\ UNCHANGED registry

\* A getRates that sorts the quotes as shopRates does.
ServiceGetRatesResumesSorted ==
  /\ shop.pc = "waiting"
  /\ shop.op = "getRates"
  /\ AllSettled
  /\ LET result == Outcome(1) IN
     \E sorted \in Sorted(result.rates) :
       shop' = [shop EXCEPT !.pc = "done", !.results = <<result>>,
                  !.quotes = sorted,
                  !.failed = (result.state = "rejected"),
                  !.error = result.reason]
  /\ UpsConsumed
  /\ UNCHANGED registry

\* ShippingService.getRates after the await: response.quotes, or the error
\* of the client.
ServiceGetRatesResumes ==
  /\ shop.pc = "waiting"
  /\ shop.op = "getRates"
  /\ AllSettled
  /\ LET result == Outcome(1) IN
     shop' = [shop EXCEPT !.pc = "done", !.results = <<result>>,
                !.quotes = result.rates,
                !.failed = (result.state = "rejected"),
                !.error = result.reason]
  /\ UpsConsumed
  /\ UNCHANGED registry

\* The caller of the ShippingService has its outcome.
ShopReturn ==
  /\ shop.pc = "done"
  /\ shop' = IdleShop
  /\ UNCHANGED <<registry, tokenVars>>

\* The token manager on its own, called by several callers.
Next ==
  \/ \E p \in Procs : CallGetAccessToken(p) /\ UNCHANGED serviceVars
  \/ InvalidateToken /\ UNCHANGED serviceVars
  \/ \E e \in ExchangeIds :
       \E answer \in OAuthAnswers(e, ExpiresInWire, CoreFailures) :
         \E issuedAt \in IssueTimes(e) :
           OAuthResponds(e, answer, issuedAt) /\ UNCHANGED serviceVars
  \/ \E p \in Procs : CachedResumes(p) /\ UNCHANGED serviceVars
  \/ \E p \in Procs : LeaderResumes(p) /\ UNCHANGED serviceVars
  \/ \E p \in Procs : FollowerResumes(p) /\ UNCHANGED serviceVars
  \/ \E p \in Procs : Return(p) /\ UNCHANGED serviceVars
  \/ Tick /\ UNCHANGED serviceVars

Spec == Init /\ [][Next]_vars

\* The carrier client, which owns its token manager: callers reach the token
\* manager through getRates only.  The clock stands still here: a token is
\* expired when cached or valid throughout.
ClientNext ==
  \/ \E p \in Procs, request \in CoreRequests :
       CallGetRates(p, request) /\ UNCHANGED serviceVars
  \/ \E e \in ExchangeIds :
       \E answer \in OAuthAnswers(e, CoreExpiresIn, CoreFailures) :
         OAuthResponds(e, answer, now) /\ UNCHANGED serviceVars
  \/ \E p \in Procs : CachedResumes(p) /\ UNCHANGED serviceVars
  \/ \E p \in Procs : LeaderResumes(p) /\ UNCHANGED serviceVars
  \/ \E p \in Procs : FollowerResumes(p) /\ UNCHANGED serviceVars
  \/ \E p \in Procs, answer \in RatingAnswers(CoreFailures, CoreData) :
       RatingResponds(p, answer) /\ UNCHANGED serviceVars
  \/ \E p \in Procs : Return(p) /\ UNCHANGED serviceVars

ClientSpec == Init /\ [][ClientNext]_vars

\* The token manager with every cause of a failed exchange; the clock stands
\* still and nobody calls invalidateToken.
ErrNext ==
  \/ \E p \in ErrProcs : CallGetAccessToken(p) /\ UNCHANGED serviceVars
  \/ \E e \in ExchangeIds : \E answer \in AllOAuthAnswers(e) :
       OAuthResponds(e, answer, now) /\ UNCHANGED serviceVars
  \/ \E p \in ErrProcs : CachedResumes(p) /\ UNCHANGED serviceVars
  \/ \E p \in ErrProcs : LeaderResumes(p) /\ UNCHANGED serviceVars
  \/ \E p \in ErrProcs : FollowerResumes(p) /\ UNCHANGED serviceVars
  \/ \E p \in ErrProcs : Return(p) /\ UNCHANGED serviceVars

ErrSpec == Init /\ [][ErrNext]_vars

\* The rating operation of the UPS client with one caller, every kind of
\* request, every outcome of the transport and every shape of a 2xx body;
\* the clock stands still.
RatingNext ==
  \/ \E request \in Requests :
       CallGetRates(UpsProc, request) /\ UNCHANGED serviceVars
  \/ \E e \in ExchangeIds :
       \E answer \in OAuthAnswers(e, CoreExpiresIn, CoreFailures) :
         OAuthResponds(e, answer, now) /\ UNCHANGED serviceVars
  \/ CachedResumes(UpsProc) /\ UNCHANGED serviceVars
  \/ LeaderResumes(UpsProc) /\ UNCHANGED serviceVars
  \/ \E answer \in RatingAnswers(AllFailures, RatingData) :
       RatingResponds(UpsProc, answer) /\ UNCHANGED serviceVars
  \/ Return(UpsProc) /\ UNCHANGED serviceVars

RatingSpec == Init /\ [][RatingNext]_vars

\* The registry on its own: clients are registered, also under names that
\* are taken.
\* The ShippingService and, at the same time, callers that use its UPS
\* client and that client's token manager themselves.  The event loop runs
\* every continuation that is ready (a promise reaction is run once its
\* promise is settled: weak fairness) and every outbound call settles, with
\* a response, an error or the timeout of the HTTP client, however often
\* the loop is busy with continuations in between (strong fairness).
LiveClients == {UpsClient, MockClient("FEDEX")}
LiveOutcomes(name) ==
  {FulfilledCall(<<RateQuote(name, "GROUND", Num(200))>>),
   RejectedCall(PlainError)}
LiveAnswers == RatingAnswers(CoreFailures, {Body("quotes", OneRated)})
LiveNext ==
  \/ \E carrier \in LiveClients : Register(carrier)
  \/ ShopRates(TRUE)
  \/ \E carrier \in {"UPS", "FEDEX"} : ServiceGetRates(carrier, TRUE)
  \/ \E p \in Procs \ {UpsProc} :
       CallGetRates(p, CoreRequest(TRUE)) /\ UNCHANGED serviceVars
  \/ \E i \in 1..MaxCarriers :
       \E outcome \in LiveOutcomes(IF i <= Len(shop.carriers)
                                   THEN shop.carriers[i].name ELSE "") :
         MockSettles(i, outcome)
  \/ \E e \in ExchangeIds :
       \E answer \in OAuthAnswers(e, CoreExpiresIn, CoreFailures) :
         OAuthResponds(e, answer, now) /\ UNCHANGED serviceVars
  \/ \E p \in Procs : CachedResumes(p) /\ UNCHANGED serviceVars
  \/ \E p \in Procs : LeaderResumes(p) /\ UNCHANGED serviceVars
  \/ \E p \in Procs : FollowerResumes(p) /\ UNCHANGED serviceVars
  \/ \E p \in Procs, answer \in LiveAnswers :
       RatingResponds(p, answer) /\ UNCHANGED serviceVars
  \/ \E p \in Procs \ {UpsProc} : Return(p) /\ UNCHANGED serviceVars
  \/ ShopRatesResumes
  \/ ServiceGetRatesResumes
  \/ ShopReturn

LiveFairness ==
  /\ SF_vars(\E e \in ExchangeIds :
               \E answer \in OAuthAnswers(e, CoreExpiresIn, CoreFailures) :
                 OAuthResponds(e, answer, now) /\ UNCHANGED serviceVars)
  /\ SF_vars(\E i \in 1..MaxCarriers :
               \E outcome \in LiveOutcomes(IF i <= Len(shop.carriers)
                                           THEN shop.carriers[i].name ELSE "") :
                 MockSettles(i, outcome))
  /\ \A p \in Procs :
       /\ WF_vars(CachedResumes(p) /\ UNCHANGED serviceVars)
       /\ WF_vars(LeaderResumes(p) /\ UNCHANGED serviceVars)
       /\ WF_vars(FollowerResumes(p) /\ UNCHANGED serviceVars)
       /\ SF_vars(\E answer \in LiveAnswers :
                    RatingResponds(p, answer) /\ UNCHANGED serviceVars)
  /\ WF_vars(ShopRatesResumes)
  /\ WF_vars(ServiceGetRatesResumes)

LiveSpec == Init /\ [][LiveNext]_vars /\ LiveFairness

\* The rating operation of the UPS carrier client for every request tried,
\* with the answers of CoreFailures and CoreData.
RequestNext ==
  \/ \E request \in AllRequests :
       CallGetRates(UpsProc, request) /\ UNCHANGED serviceVars
  \/ \E e \in ExchangeIds : \E answer \in OAuthAnswers(e, CoreExpiresIn, CoreFailures) :
       OAuthResponds(e, answer, now) /\ UNCHANGED serviceVars
  \/ CachedResumes(UpsProc) /\ UNCHANGED serviceVars
  \/ LeaderResumes(UpsProc) /\ UNCHANGED serviceVars
  \/ \E answer \in RatingAnswers(CoreFailures, CoreData) :
       RatingResponds(UpsProc, answer) /\ UNCHANGED serviceVars
  \/ Return(UpsProc) /\ UNCHANGED serviceVars

RequestSpec == Init /\ [][RequestNext]_vars

RegistryNext == \E carrier \in AllClients : Register(carrier)

RegistrySpec == Init /\ [][RegistryNext]_vars

\* The ShippingService over a registry of the UPS client and the clients of
\* other carriers; the clock stands still.
ShopNext ==
  \/ \E carrier \in {UpsClient} \cup {MockClient(n) : n \in MockNames} :
       Register(carrier)
  \/ \E valid \in BOOLEAN : ShopRates(valid)
  \/ \E carrier \in CarrierNames, valid \in BOOLEAN :
       ServiceGetRates(carrier, valid)
  \/ \E i \in 1..MaxCarriers :
       \E outcome \in MockOutcomes(IF i <= Len(shop.carriers)
                                   THEN shop.carriers[i].name ELSE "") :
         MockSettles(i, outcome)
  \/ \E e \in ExchangeIds :
       \E answer \in OAuthAnswers(e, CoreExpiresIn, CoreFailures) :
         OAuthResponds(e, answer, now) /\ UNCHANGED serviceVars
  \/ CachedResumes(UpsProc) /\ UNCHANGED serviceVars
  \/ LeaderResumes(UpsProc) /\ UNCHANGED serviceVars
  \/ \E answer \in RatingAnswers(CoreFailures, ShopData) :
       RatingResponds(UpsProc, answer) /\ UNCHANGED serviceVars
  \/ ShopRatesResumes
  \/ ServiceGetRatesResumes
  \/ ShopReturn

ShopSpec == Init /\ [][ShopNext]_vars

\* ================================================================ claims
\* What a step is, read off the callers' positions.
CallStep(p) == procs[p].pc = "idle" /\ procs'[p].pc = "acquire"
\* The step hands p a token: to its caller, or into a rating request.
HandStep(p) ==
  /\ procs[p].pc = "acquire"
  /\ \/ procs'[p].pc = "send"
     \/ procs'[p].pc = "done" /\ procs'[p].result.ok
HandedToken(p) ==
  IF procs'[p].pc = "send" THEN procs'[p].bearer ELSE procs'[p].result.token
FailStep(p) ==
  /\ procs[p].pc = "acquire"
  /\ procs'[p].pc = "done"
  /\ ~procs'[p].result.ok
\* The cache holds a token and the clock is strictly before its expiresAt.
RawValid == cache.present /\ ~cache.expiresAt.nan /\ now < cache.expiresAt.v
\* C1: getAccessToken calls made while no valid token is cached and before
\* the response of the refresh arrives send exactly one credential exchange:
\* the first call sends it, every later call sends none and waits for the
\* one outstanding; and every caller gets the token of that exchange.
C1_SingleExchange ==
  [][\A p \in Procs :
       /\ (CallStep(p) /\ ~RawValid /\ outstanding = {}) =>
            /\ exchangesSent' = exchangesSent + 1
            /\ outstanding' = {exchangesSent'}
       /\ (CallStep(p) /\ ~RawValid /\ outstanding # {}) =>
            /\ exchangesSent' = exchangesSent
            /\ outstanding' = outstanding
            /\ procs'[p].joined \in outstanding
       /\ (HandStep(p) /\ procs[p].src # "cache") =>
            /\ promise[procs[p].joined].state = "fulfilled"
            /\ HandedToken(p) = promise[procs[p].joined].value
            /\ exchangesSent' = exchangesSent]_vars

\* C1 happens: one exchange was sent and every caller, the one that sent it
\* and those that joined it, has its token.
C1_Witness ==
  /\ exchangesSent = 1
  /\ \A p \in Procs : /\ procs[p].pc = "done"
                      /\ procs[p].result.ok
                      /\ procs[p].joined = 1
                      /\ procs[p].result.token = promise[1].value
  /\ \E p \in Procs : procs[p].src = "follower"

\* C2: when the refresh in flight fails, every caller that waited for it
\* fails with the failure that refresh ended in, the same for all of them,
\* and no further credential exchange is sent for them.
C2_SharedFailure ==
  [][\A p \in Procs :
       (FailStep(p) /\ procs[p].src # "cache") =>
          /\ promise[procs[p].joined].state = "rejected"
          /\ procs'[p].result.error = promise[procs[p].joined].reason
          /\ exchangesSent' = exchangesSent
          /\ outstanding' = outstanding]_vars

\* C2 happens: one exchange failed, and the caller that sent it and another
\* that joined it both have that failure.
C2_Witness ==
  /\ exchangesSent = 1
  /\ \A p \in Procs : /\ procs[p].pc = "done"
                      /\ ~procs[p].result.ok
                      /\ procs[p].joined = 1
                      /\ procs[p].result.error = promise[1].reason
                      /\ procs[p].result.error.code = "AUTHENTICATION_ERROR"
  /\ \E p \in Procs : procs[p].src = "follower"

\* C3: at most one credential exchange is outstanding, and while one is,
\* pendingRefresh designates it: the slot is set when the refresh starts and
\* is not cleared before the refresh has settled.
C3_OneOutstanding ==
  /\ Cardinality(outstanding) <= 1
  /\ \A e \in outstanding : pendingRefresh = e /\ promise[e].state = "pending"
  /\ pendingRefresh # 0 => promise[pendingRefresh].state # "none"

\* C3 happens: invalidateToken was called while a refresh was in flight, a
\* second caller has called getAccessToken since, and the exchange is still
\* the only one.
C3_Witness ==
  /\ outstanding # {}
  /\ inv.kind = "inflight"
  /\ inv.next = "follower"
  /\ \E p \in Procs : procs[p].pc = "acquire" /\ procs[p].src = "follower"

\* C4: a getAccessToken call made while the cache holds a token whose
\* expiresAt the clock is strictly before sends no credential exchange and
\* takes that token; so the sequential getRates calls of one client made
\* within the validity of the token send one exchange in total.
C4_CacheHit ==
  [][\A p \in Procs :
       /\ (CallStep(p) /\ RawValid) =>
            /\ exchangesSent' = exchangesSent
            /\ outstanding' = outstanding
            /\ pendingRefresh' = pendingRefresh
            /\ procs'[p].held = cache.accessToken
       /\ (HandStep(p) /\ procs[p].src = "cache") =>
            /\ HandedToken(p) = procs[p].held
            /\ exchangesSent' = exchangesSent]_vars

\* C4 happens: two getRates calls have their quotes, with the same token,
\* the second one from the cache, and one exchange was sent.
C4_Witness ==
  /\ exchangesSent = 1
  /\ \A p \in Procs : /\ procs[p].pc = "done"
                      /\ procs[p].op = "rates"
                      /\ procs[p].result.quotes
                      /\ procs[p].result.token = 1
  /\ \E p \in Procs : procs[p].src = "cache"
  /\ \E p \in Procs : procs[p].src = "leader"


\* The cached token came with a lifetime (expires_in, in seconds) that was
\* a number.
LifetimeKnown == cache.present /\ ~cacheMeta.expiresIn.nan
\* The cached token came with a lifetime of at most the buffer.
ShortLived ==
  LifetimeKnown /\ cacheMeta.expiresIn.v * MsPerSecond <= TOKEN_EXPIRY_BUFFER_MS

C6_AlwaysNewExchange ==
  [][\A p \in Procs :
       (CallStep(p) /\ ShortLived) => exchangesSent' = exchangesSent + 1]_vars

\* C6 (amended): a token that came with expires_in <= 60 is expired from the
\* moment it is cached; a getAccessToken call made while the cache holds it
\* never takes it from the cache: it sends a new credential exchange, or
\* waits for the one already outstanding.
C6_ShortLivedNeverServed ==
  [][/\ (cache'.present /\ ~cacheMeta'.expiresIn.nan
           /\ cacheMeta'.expiresIn.v * MsPerSecond <= TOKEN_EXPIRY_BUFFER_MS)
          => ~(now' < cache'.expiresAt.v)
     /\ \A p \in Procs :
          (CallStep(p) /\ ShortLived) =>
             /\ procs'[p].src # "cache"
             /\ IF outstanding = {}
                THEN /\ exchangesSent' = exchangesSent + 1
                     /\ outstanding' = {exchangesSent'}
                ELSE /\ exchangesSent' = exchangesSent
                     /\ procs'[p].joined \in outstanding]_vars

\* C6 happens: the cache holds a token that came with expires_in <= 60, and
\* a caller has sent a new exchange, which is outstanding.
C6_Witness ==
  /\ ShortLived
  /\ \E p \in Procs : /\ procs[p].pc = "acquire"
                      /\ procs[p].src = "leader"
                      /\ procs[p].joined \in outstanding
                      /\ procs[p].joined # cache.accessToken

C8_AlwaysRetryableAuthError ==
  \A p \in Procs :
    (procs[p].pc = "done" /\ procs[p].op = "token" /\ ~procs[p].result.ok) =>
       /\ procs[p].result.error.code = "AUTHENTICATION_ERROR"
       /\ procs[p].result.error.retryable = TRUE

\* C8 happens: getAccessToken failed on a 403 of the credential endpoint,
\* which the error translator marks as not retryable.
C8_Witness ==
  \E p \in Procs :
    /\ procs[p].pc = "done"
    /\ procs[p].op = "token"
    /\ ~procs[p].result.ok
    /\ procs[p].result.error.message
         = <<"UPS authentication failed: ", "Authorization denied">>

\* C9: when the rating call fails with an AuthenticationError, the cache is
\* cleared in the step that hands the error to the caller, and the next
\* getAccessToken call does not take the rejected token from the cache: it
\* sends a new exchange, unless one was outstanding when the error came.
C9_RejectedTokenDropped ==
  [][\A p \in Procs :
       /\ (/\ procs[p].pc = "send"
           /\ procs'[p].pc = "done"
           /\ procs'[p].result.error.code = "AUTHENTICATION_ERROR") =>
             ~cache'.present
       /\ (CallStep(p) /\ inv.token # 0 /\ inv.next = "none") =>
             /\ procs'[p].src = "cache" => procs'[p].held # inv.token
             /\ inv.kind # "inflight" => exchangesSent' = exchangesSent + 1]_vars

\* C9 happens: the rating endpoint rejected a token that was valid by the
\* clock, and the next getRates call has sent a new credential exchange.
C9_Witness ==
  /\ inv.token # 0
  /\ inv.kind = "idleValid"
  /\ inv.next = "leader"
  /\ \E p \in Procs : /\ procs[p].op = "rates"
                      /\ procs[p].pc = "acquire"
                      /\ procs[p].joined \in outstanding

\* C10: one execution of the rating operation sends at most one rating
\* request and calls getAccessToken at most once, also when the call fails
\* with an AuthenticationError.
C10_NoAutomaticRetry ==
  \A p \in Procs : procs[p].sends <= 1 /\ procs[p].tokenCalls <= 1

\* C10 happens: a getRates call ended in the AuthenticationError of a 401 of
\* the rating endpoint, after one token call and one rating request.
C10_Witness ==
  \E p \in Procs :
    /\ procs[p].pc = "done"
    /\ procs[p].op = "rates"
    /\ procs[p].result.error.code = "AUTHENTICATION_ERROR"
    /\ procs[p].result.error.httpStatus = 401
    /\ procs[p].sends = 1
    /\ procs[p].tokenCalls = 1


\* The stages of one execution of the rating operation, in order.
Stages == <<"BUILD_REQUEST", "ACQUIRE_TOKEN", "SEND", "PARSE", "DONE">>
IsPrefix(s, t) == Len(s) <= Len(t) /\ s = SubSeq(t, 1, Len(s))

\* C11: when the token cannot be acquired, the rating operation fails with
\* the AuthenticationError and no rating request is sent.
C11_NoSendWithoutToken ==
  [][\A p \in Procs :
       (/\ procs[p].op = "rates"
        /\ procs[p].pc = "acquire"
        /\ procs'[p].pc # "acquire"
        /\ procs[p].src # "cache"
        /\ promise[procs[p].joined].state = "rejected") =>
          /\ procs'[p].pc = "done"
          /\ ~procs'[p].result.ok
          /\ procs'[p].result.error.code = "AUTHENTICATION_ERROR"
          /\ procs'[p].sends = 0
          /\ procs'[p].bearer = 0]_vars

\* C11 happens: a getRates call ended in the AuthenticationError of a failed
\* credential exchange (a network error) without a rating request.
C11_Witness ==
  \E p \in Procs :
    /\ procs[p].pc = "done"
    /\ procs[p].op = "rates"
    /\ procs[p].tokenCalls = 1
    /\ procs[p].sends = 0
    /\ procs[p].result.error.code = "AUTHENTICATION_ERROR"
    /\ procs[p].result.error.message
         = <<"UPS authentication failed: ", "Network error: ", "ERR_NETWORK">>

\* C12: a request that fails validation is rejected with a ValidationError
\* that is not retryable, in the step of the call: no credential exchange
\* and no rating request is sent, no token is asked for, and the cache and
\* the in-flight slot of the token manager are left as they were.
C12_ValidationBeforeNetwork ==
  [][\A p \in Procs :
       (/\ procs[p].pc = "idle"
        /\ procs'[p].pc = "done") =>
          /\ procs'[p].result.error.code = "VALIDATION_ERROR"
          /\ procs'[p].result.error.retryable = FALSE
          /\ procs'[p].sends = 0
          /\ procs'[p].tokenCalls = 0
          /\ exchangesSent' = exchangesSent
          /\ outstanding' = outstanding
          /\ cache' = cache
          /\ pendingRefresh' = pendingRefresh]_vars

\* C12 happens: a request was rejected by validation while another caller's
\* credential exchange was outstanding.
C12_Witness ==
  /\ outstanding # {}
  /\ pendingRefresh \in outstanding
  /\ \E p \in Procs :
       /\ procs[p].pc = "done"
       /\ procs[p].result.error.code = "VALIDATION_ERROR"
       /\ procs[p].tokenCalls = 0

\* C13: an execution of the rating operation enters the stages
\* BUILD_REQUEST, ACQUIRE_TOKEN, SEND, PARSE, DONE in that order, each at
\* most once and none skipped; it ends in DONE with quotes, or at the stage
\* it was in with an error whose code is one of the CarrierError codes.
C13_StagesInOrder ==
  \A p \in Procs :
    procs[p].op = "rates" /\ procs[p].tokenCalls > 0 =>
      /\ IsPrefix(procs[p].path, Stages)
      /\ procs[p].pc = "acquire" => Len(procs[p].path) = 2
      /\ procs[p].pc = "send" => Len(procs[p].path) = 3
      /\ procs[p].pc = "done" =>
           IF procs[p].result.ok
           THEN procs[p].result.quotes /\ procs[p].path = Stages
           ELSE /\ Len(procs[p].path) \in 2..4
                /\ procs[p].result.error.code \in CarrierErrorCodes

\* C13 happens: an execution ended in PARSE, on a record that made the
\* mapper throw.
C13_Witness ==
  \E p \in Procs :
    /\ procs[p].pc = "done"
    /\ procs[p].path = <<"BUILD_REQUEST", "ACQUIRE_TOKEN", "SEND", "PARSE">>
    /\ procs[p].result.error.code = "PARSE_ERROR"
    /\ procs[p].result.error.message[1] = "Failed to parse UPS rate response: "


\* The number of places of the sequence s that hold x.
Count(s, x) == Cardinality({i \in 1..Len(s) : s[i] = x})
\* The shopRates call in progress has returned its result.
ShopDone == shop.pc = "done" /\ shop.op = "shopRates" /\ ~shop.failed
Succeeded == {i \in 1..Len(shop.results) : shop.results[i].state = "fulfilled"}
Rejections == {i \in 1..Len(shop.results) : shop.results[i].state = "rejected"}

\* C14: the quotes shopRates returns are exactly the quotes of the carriers
\* that succeeded, each once, whichever carriers failed and in whatever
\* order the carrier calls completed.
C14_QuotesOfAllSucceeded ==
  ShopDone =>
    /\ Len(shop.results) = Len(shop.carriers)
    /\ \A i \in 1..Len(shop.carriers) :
         shop.carriers[i].impl = "mock" => shop.results[i] = shop.calls[i]
    /\ \A i \in Succeeded :
         \A k \in 1..Len(shop.results[i].rates) :
           Count(shop.quotes, shop.results[i].rates[k]) = 1
    /\ \A n \in 1..Len(shop.quotes) :
         \E i \in Succeeded :
           \E k \in 1..Len(shop.results[i].rates) :
             shop.results[i].rates[k] = shop.quotes[n]

\* C14 happens: of three carriers one failed, and the result holds the two
\* quotes of UPS and the two of another carrier.
C14_Witness ==
  /\ ShopDone
  /\ Len(shop.carriers) = 3
  /\ Cardinality(Rejections) = 1
  /\ Len(shop.quotes) = 4
  /\ \E n \in 1..4 : shop.quotes[n].carrier = "UPS"
  /\ \E n \in 1..4 : shop.quotes[n].carrier # "UPS"

\* C15 (as stated): for every carrier whose getRates failed, errors holds
\* exactly one entry whose carrier is the name of that carrier.
C15_ErrorsNameTheCarrier ==
  ShopDone =>
    \A i \in Rejections :
      Cardinality({n \in 1..Len(shop.errors) :
                     shop.errors[n].carrier = shop.carriers[i].name}) = 1

\* C16: shopRates produces its result in a step before which every carrier
\* call it launched had settled.
C16_WaitsForAll ==
  [][(shop.pc = "waiting" /\ shop.op = "shopRates" /\ shop'.pc = "done") =>
       /\ \A i \in 1..Len(shop.carriers) :
            IF shop.carriers[i].impl = "mock"
            THEN shop.calls[i].state # "pending"
            ELSE procs[UpsProc].pc = "done"
       /\ Len(shop'.results) = Len(shop.carriers)
       /\ \A i \in 1..Len(shop'.results) :
            shop'.results[i].state # "pending"]_vars

\* C16 happens: one carrier has failed and the UPS call is still waiting for
\* the rating endpoint; shopRates has no result yet.
C16_Witness ==
  /\ shop.pc = "waiting"
  /\ shop.op = "shopRates"
  /\ procs[UpsProc].pc = "send"
  /\ \E i \in 1..Len(shop.carriers) : shop.calls[i].state = "rejected"

\* C17: with at least one carrier registered shopRates does not fail, and
\* the number of carriers whose quotes were merged plus the number of
\* entries of errors is the number of registered carriers.
C17_EveryOutcomeCaptured ==
  (shop.pc = "done" /\ shop.op = "shopRates") =>
    IF shop.failed THEN registry = <<>>
    ELSE /\ Len(shop.carriers) = Len(registry)
         /\ Len(registry) >= 1
         /\ Cardinality(Succeeded) + Len(shop.errors) = Len(registry)
         /\ Cardinality(Succeeded) + Cardinality(Rejections) = Len(registry)

\* C17 happens: all three carriers failed, one of them with an exception
\* that is no CarrierError, and shopRates returned three errors.
C17_Witness ==
  /\ ShopDone
  /\ Len(registry) = 3
  /\ Len(shop.errors) = 3
  /\ shop.quotes = <<>>
  /\ \E n \in 1..3 : shop.errors[n].error.code = "UNKNOWN_ERROR"

\* a <= b on JavaScript numbers: false as soon as one side is NaN.
JsLessEq(a, b) == ~a.nan /\ ~b.nan /\ a.v <= b.v

\* C18 (as stated): the quotes shopRates returns are sorted ascending by
\* amount: each amount is <= the next one.
C18_SortedAscending ==
  ShopDone =>
    \A n \in 1..(Len(shop.quotes) - 1) :
      JsLessEq(shop.quotes[n].amount, shop.quotes[n + 1].amount)

\* The place of a quote in the fan-out: the place of its carrier among the
\* carriers, then its place among the quotes of that carrier.
CarrierPlace(q) ==
  CHOOSE i \in 1..Len(shop.carriers) : shop.carriers[i].name = q.carrier
QuotePlace(q) ==
  CHOOSE k \in 1..Len(shop.results[CarrierPlace(q)].rates) :
    shop.results[CarrierPlace(q)].rates[k] = q
FanOutBefore(a, b) ==
  \/ CarrierPlace(a) < CarrierPlace(b)
  \/ CarrierPlace(a) = CarrierPlace(b) /\ QuotePlace(a) < QuotePlace(b)

C20_UnregisteredCarrier ==
  [][(/\ shop.pc = "idle"
      /\ shop'.op = "getRates"
      /\ \A i \in 1..Len(registry) : registry[i].name # shop'.asked) =>
        /\ shop'.pc = "done"
        /\ shop'.failed
        /\ shop'.error.code = "CONFIGURATION_ERROR"
        /\ shop'.error.retryable = FALSE
        /\ \E k \in 1..Len(shop'.error.message) :
             shop'.error.message[k] = shop'.asked
        /\ shop'.carriers = <<>>
        /\ procs' = procs
        /\ exchangesSent' = exchangesSent]_vars

\* C20 happens: getRates was called for FEDEX on a registry that holds the
\* UPS client only, and failed.
C20_Witness ==
  /\ shop.pc = "done"
  /\ shop.op = "getRates"
  /\ shop.asked = "FEDEX"
  /\ shop.failed
  /\ Len(registry) = 1
  /\ registry[1].name = "UPS"

\* C21: shopRates on an empty registry fails in the step of the call with a
\* ConfigurationError that is not retryable, launches nothing and has no
\* result; on a registry that is not empty it launches getRates of every
\* registered client, each once.
C21_EmptyOrEveryCarrierOnce ==
  [][(shop.pc = "idle" /\ shop'.pc # "idle" /\ shop'.op = "shopRates") =>
       IF Len(registry) = 0 THEN
         /\ shop'.pc = "done"
         /\ shop'.failed
         /\ shop'.error.code = "CONFIGURATION_ERROR"
         /\ shop'.error.retryable = FALSE
         /\ shop'.calls = <<>> /\ shop'.results = <<>>
         /\ shop'.quotes = <<>> /\ shop'.errors = <<>>
         /\ procs' = procs
       ELSE
         /\ shop'.pc = "waiting"
         /\ ~shop'.failed
         /\ Len(shop'.calls) = Len(shop'.carriers)
         /\ \A i \in 1..Len(registry) :
              Count(shop'.carriers, registry[i]) = 1
         /\ \A j \in 1..Len(shop'.carriers) :
              /\ \E i \in 1..Len(registry) : registry[i] = shop'.carriers[j]
              /\ shop'.calls[j] = PendingCall
         /\ (\E i \in 1..Len(registry) : registry[i].impl = "ups") <=>
              (procs[UpsProc].pc = "idle" /\ procs'[UpsProc].op = "rates")
         /\ \A p \in Procs \ {UpsProc} : procs'[p] = procs[p]]_vars

\* C21 happens: shopRates was called on the empty registry and failed.
C21_Witness ==
  /\ registry = <<>>
  /\ shop.pc = "done"
  /\ shop.op = "shopRates"
  /\ shop.failed
  /\ shop.error = NoCarriersRegistered

\* C22 (as stated): every failure that reaches the caller of getRates or
\* shopRates of the ShippingService is a CarrierError: its code is one of
\* the ten kinds and its details carry a boolean retryable.
C22_OnlyTaxonomyErrors ==
  (shop.pc = "done" /\ shop.failed) =>
    /\ IsCarrierError(shop.error)
    /\ shop.error.retryable \in BOOLEAN

\* The caller's rating request met a transport failure and the caller has
\* its error.
RatingFailed(p) ==
  /\ procs[p].pc = "done"
  /\ procs[p].wire.kind = "failure"

\* C23: the error of a rating request that met a transport failure is
\* classified by the first rule that matches: a timeout code gives
\* TIMEOUT_ERROR, retryable; no response gives NETWORK_ERROR, retryable; 401
\* gives AUTHENTICATION_ERROR, retryable; 403 AUTHORIZATION_ERROR, not
\* retryable; 429 RATE_LIMIT_ERROR, retryable; any other status
\* CARRIER_API_ERROR, retryable exactly when the status is at least 500,
\* with the code and message of the first record of the error body when it
\* has one; a throwable that is no AxiosError gives UNKNOWN_ERROR, not
\* retryable.
C23_FirstMatchingRule ==
  \A p \in Procs : RatingFailed(p) =>
    LET f == procs[p].wire.failure
        e == procs[p].result.error
        kind == <<e.code, e.retryable>>
    IN IF f.class # "AxiosError" THEN kind = <<"UNKNOWN_ERROR", FALSE>>
       ELSE IF f.code \in {"ECONNABORTED", "ETIMEDOUT"} THEN
         kind = <<"TIMEOUT_ERROR", TRUE>>
       ELSE IF f.status = NoStatus THEN kind = <<"NETWORK_ERROR", TRUE>>
       ELSE IF f.status = 401 THEN kind = <<"AUTHENTICATION_ERROR", TRUE>>
       ELSE IF f.status = 403 THEN kind = <<"AUTHORIZATION_ERROR", FALSE>>
       ELSE IF f.status = 429 THEN kind = <<"RATE_LIMIT_ERROR", TRUE>>
       ELSE /\ kind = <<"CARRIER_API_ERROR", f.status >= 500>>
            /\ e.httpStatus = f.status
            /\ (f.body # <<>> /\ f.body[1].code # ""
                  /\ f.body[1].message # "") =>
                 /\ e.upstream = <<f.body[1].code, f.body[1].message>>
                 /\ e.message = <<f.body[1].message>>
            /\ f.body = <<>> => e.upstream = NoUpstream

\* C23 happens: a rating request was answered with status 500 and an error
\* body of two records, and the caller has a retryable CARRIER_API_ERROR
\* with the code of the first.
C23_Witness ==
  /\ RatingFailed(UpsProc)
  /\ procs[UpsProc].wire.failure.status = 500
  /\ Len(procs[UpsProc].wire.failure.body) = 2
  /\ procs[UpsProc].result.error.code = "CARRIER_API_ERROR"
  /\ procs[UpsProc].result.error.retryable
  /\ procs[UpsProc].result.error.upstream[1] = "111210"

\* The caller's rating request was answered with a 2xx response.
RatingAnswered(p) ==
  /\ procs[p].pc = "done"
  /\ procs[p].wire.kind = "response"
\* The record cannot be mapped: it lacks a member the mapper reads, or the
\* table has nothing under its unit code.
Unmappable(rated) ==
  \/ rated.lacks # ""
  \/ Lookup(UPS_WEIGHT_UNIT_TO_DOMAIN, rated.Unit) = Undefined
\* The body is malformed: no structured data, no envelope, no array, or a
\* record that cannot be mapped.
Malformed(data) ==
  \/ data.shape # "quotes"
  \/ \E i \in 1..Len(data.rated) : Unmappable(data.rated[i])
\* The member whose absence makes the body malformed: the envelope, the
\* array, or the member the first malformed record lacks ("" when that
\* record lacks none).
MissingField(data) ==
  IF data.shape \in {"text", "empty", "noEnvelope"} THEN "RateResponse"
  ELSE IF data.shape \in {"noRatedShipment", "notArray"} THEN "RatedShipment"
  ELSE LET i == CHOOSE i \in 1..Len(data.rated) :
                  /\ Unmappable(data.rated[i])
                  /\ \A j \in 1..(i - 1) : ~Unmappable(data.rated[j])
       IN data.rated[i].lacks
Names(message, word) == \E k \in 1..Len(message) : message[k] = word

RegisterStep(carrier) ==
  shop'.op = "register" /\ shop'.carriers = <<carrier>>

\* C25: after registry.register(carrier), get(carrier.name) is that client
\* and get of every other name is what it was; has(name) is true exactly
\* when get(name) is a client; and getAll() holds one client for each name
\* that has been registered and nothing else.
C25_LastWriteWins ==
  [][\A carrier \in AllClients : RegisterStep(carrier) =>
       /\ registryGet(carrier.name)' = carrier
       /\ has(carrier.name)'
       /\ \A n \in CarrierNames \ {carrier.name} :
            /\ registryGet(n)' = registryGet(n)
            /\ has(n)' = has(n)
       /\ \A n \in CarrierNames :
            /\ has(n)' <=> registryGet(n)' # NoClient
            /\ Count([i \in 1..Len(getAll') |-> getAll'[i].name], n)
                 = IF has(n)' THEN 1 ELSE 0
            /\ has(n)' => Count(getAll', registryGet(n)') = 1]_vars

\* C25 happens: FEDEX was registered first, then UPS, then another client
\* under the name FEDEX, which get now returns.
C25_Witness ==
  /\ shop.op = "register"
  /\ shop.carriers = <<MockClientNo("FEDEX", 2)>>
  /\ Len(registry) = 2
  /\ registry[2] = UpsClient
  /\ registryGet("FEDEX") = MockClientNo("FEDEX", 2)

\* The caller's rating request has been posted.
Posted(p) ==
  /\ procs[p].op = "rates"
  /\ procs[p].sends > 0
\* The request names a service: it has a serviceCode that is not empty.
SpecifiesService(request) == request.serviceCode \notin {Undefined, ""}

\* C26: the rating request is posted to the endpoint "Rate" exactly when the
\* request names a service and to "Shop" otherwise, and the wire request
\* has the Service member of the shipment, with the code of the request,
\* exactly when the endpoint is "Rate".
C26_EndpointByServiceCode ==
  \A p \in Procs : Posted(p) =>
    /\ procs[p].url = IF SpecifiesService(procs[p].request) THEN "Rate"
                      ELSE "Shop"
    /\ procs[p].upsRequest.Service # Undefined <=> procs[p].url = "Rate"
    /\ procs[p].url = "Rate" =>
         procs[p].upsRequest.Service = procs[p].request.serviceCode

\* C26 happens: a request for service 03 is at the rating endpoint "Rate".
C26_Witness ==
  /\ procs[UpsProc].pc = "send"
  /\ procs[UpsProc].request.serviceCode = "03"
  /\ procs[UpsProc].url = "Rate"
  /\ procs[UpsProc].upsRequest.Service = "03"

\* The step answers the credential exchange e with a token.
ExchangeSucceeds(e) ==
  /\ e \in outstanding
  /\ e \notin outstanding'
  /\ promise'[e].state = "fulfilled"
\* The step gives p the outcome of its rating request.
RatingOutcome(p) == procs[p].pc = "send" /\ procs'[p].pc = "done"
\* The outcome of p's rating request is the AuthenticationError of a 401.
Rejected401(p) ==
  /\ procs'[p].wire.kind = "failure"
  /\ procs'[p].wire.failure.status = 401
  /\ procs'[p].wire.failure.code \notin {"ECONNABORTED", "ETIMEDOUT"}
  /\ procs'[p].result.error.code = "AUTHENTICATION_ERROR"

\* C27: the cached token changes only in the step of a successful
\* credential exchange, which caches the new token, or in a step that calls
\* invalidateToken, which clears it; the rating operation clears it when its
\* rating request fails with the AuthenticationError of a 401 and leaves it
\* as it is on every other outcome.
C27_CacheFrame ==
  [][/\ cache' # cache =>
          \/ \E e \in ExchangeIds :
               /\ ExchangeSucceeds(e)
               /\ cache'.present
               /\ cache'.accessToken = promise'[e].value
          \/ \E p \in Procs :
               RatingOutcome(p) /\ Rejected401(p) /\ cache' = NoCache
     /\ \A p \in Procs : RatingOutcome(p) =>
          /\ Rejected401(p) = (procs'[p].result.error.code
                                 = "AUTHENTICATION_ERROR")
          /\ cache' = IF Rejected401(p) THEN NoCache ELSE cache]_vars

\* C27 happens: the rating request was answered with 429 and the token it
\* was sent with is still cached.
C27_Witness ==
  /\ procs[UpsProc].pc = "done"
  /\ procs[UpsProc].wire.kind = "failure"
  /\ procs[UpsProc].wire.failure.status = 429
  /\ procs[UpsProc].result.error.code = "RATE_LIMIT_ERROR"
  /\ cache.present
  /\ cache.accessToken = procs[UpsProc].bearer

\* The token manager of the UPS client: its cached token, its in-flight
\* slot and its credential exchanges.
TokenManager == <<cache, pendingRefresh, exchangesSent, outstanding, promise>>
\* The step settles the getRates call of the i-th carrier, another carrier
\* than UPS.
OtherCarrierSettles(i) ==
  /\ shop.pc = "waiting"
  /\ shop'.pc = "waiting"
  /\ shop.carriers[i].impl = "mock"
  /\ shop'.calls[i] # shop.calls[i]

GetRatesOutcome ==
  /\ shop.pc = "waiting"
  /\ shop.op = "getRates"
  /\ shop'.pc = "done"

\* C29: getRates of the ShippingService for a registered carrier calls the
\* client registered under that name and returns the quotes of its answer,
\* in the order of the answer; when the client's getRates fails, the caller
\* gets the very error the client threw.
C29_PassesThrough ==
  [][GetRatesOutcome =>
       /\ shop.carriers = <<registryGet(shop.asked)>>
       /\ shop.carriers[1].name = shop.asked
       /\ LET theirs == IF shop.carriers[1].impl = "ups"
                        THEN procs[UpsProc].result
                        ELSE [ok |-> shop.calls[1].state = "fulfilled",
                              rates |-> shop.calls[1].rates,
                              error |-> shop.calls[1].reason]
          IN IF theirs.ok
             THEN ~shop'.failed /\ shop'.quotes = theirs.rates
             ELSE shop'.failed /\ shop'.error = theirs.error]_vars

\* C29 happens: getRates("UPS") returned the two quotes of the UPS answer,
\* the dearer one first as in the answer.
C29_Witness ==
  /\ shop.pc = "done"
  /\ shop.op = "getRates"
  /\ shop.asked = "UPS"
  /\ ~shop.failed
  /\ Len(shop.quotes) = 2
  /\ shop.quotes[1].amount = Num(200)
  /\ shop.quotes[2].amount = Num(150)

\* The 2xx answer to p's rating request has an array of records that lack
\* no member.
CompleteRecords(p) ==
  /\ RatingAnswered(p)
  /\ procs[p].wire.data.shape = "quotes"
  /\ \A i \in 1..Len(procs[p].wire.data.rated) :
       procs[p].wire.data.rated[i].lacks = ""

\* C30 (as stated): a billing weight whose unit code is the one the request's
\* weight unit was sent as comes back as that weight unit (LB as LBS and
\* back, KG as KGS, OZ as OZS), and a record whose unit code is none of LBS,
\* KGS, OZS makes the rating operation fail with a PARSE_ERROR.
C30_UnitRoundTrip ==
  \A p \in Procs : CompleteRecords(p) =>
    LET rated == procs[p].wire.data.rated IN
    /\ procs[p].upsRequest.Package.items[1].WeightCode
         \in {"LBS", "KGS", "OZS"}
    /\ (\A i \in 1..Len(rated) :
          rated[i].Unit = procs[p].upsRequest.Package.items[1].WeightCode) =>
         /\ procs[p].result.ok
         /\ \A i \in 1..Len(rated) :
              procs[p].result.rates[i].unit
                = procs[p].request.packages[1].weight.unit
    /\ (\E i \in 1..Len(rated) : rated[i].Unit \notin {"LBS", "KGS", "OZS"}) =>
         /\ ~procs[p].result.ok
         /\ procs[p].result.error.code = "PARSE_ERROR"

\* p's call of getRates has built its wire request.
Built(p) ==
  /\ procs[p].op = "rates"
  /\ procs[p].pc \in {"acquire", "send"}
\* The wire package is the package pkg of the request.
SerializedFrom(item, pkg) ==
  item.WeightCode = WEIGHT_UNIT_TO_UPS[pkg.weight.unit]
\* The characters s are the decimal digits of the number n.
DecimalOf(s, n) ==
  /\ Len(s) > 0
  /\ DigitPrefix(s, 1) = Len(s)
  /\ DigitsValue(s, Len(s)) = n

\* C31: in the wire request a single package is one object and there is no
\* NumOfPieces; two or more packages are an array of as many wire packages,
\* in the order of the request, and NumOfPieces is the decimal text of
\* their number.
C31_PackagesSerialized ==
  \A p \in Procs : Built(p) =>
    LET packages == procs[p].request.packages
        wire == procs[p].upsRequest IN
    /\ Len(packages) = 1 =>
         /\ ~wire.Package.array
         /\ SerializedFrom(wire.Package.items[1], packages[1])
         /\ wire.NumOfPieces = Absent
    /\ Len(packages) >= 2 =>
         /\ wire.Package.array
         /\ Len(wire.Package.items) = Len(packages)
         /\ \A i \in 1..Len(packages) :
              SerializedFrom(wire.Package.items[i], packages[i])
         /\ wire.NumOfPieces # Absent
         /\ DecimalOf(wire.NumOfPieces[1], Len(packages))

\* C31 happens: a request of an OZ, a KG and an LB package is at the rating
\* endpoint as an array of three, and a request of one package as an object.
C31_Witness ==
  /\ procs[UpsProc].pc = "send"
  /\ Len(procs[UpsProc].request.packages) = 3
  /\ procs[UpsProc].upsRequest.Package.array
  /\ procs[UpsProc].upsRequest.Package.items
       = <<[WeightCode |-> "OZS"], [WeightCode |-> "KGS"],
           [WeightCode |-> "LBS"]>>
  /\ procs[UpsProc].upsRequest.NumOfPieces = Given(<<"3">>)

\* p's call of getRates was rejected by the validation of its request.
RejectedByValidation(p) ==
  /\ procs[p].pc = "done"
  /\ ~procs[p].result.ok
  /\ procs[p].result.error.code = "VALIDATION_ERROR"
\* p's call of getRates is under way or over.
CalledGetRates(p) == procs[p].op = "rates" /\ procs[p].pc # "idle"

\* An address that is there, with 1 to 3 address lines, a country code of 2
\* characters and a state code of 2 characters when it has one.
AddressAsStated(member) ==
  /\ member # Absent
  /\ Len(member[1].addressLines) \in 1..3
  /\ Len(member[1].countryCode) = 2
  /\ member[1].stateProvinceCode # Absent =>
       Len(member[1].stateProvinceCode[1]) = 2
\* The lengths the schema asks of the texts of an address.
TextsFit(member) ==
  /\ member[1].name # Absent => Len(member[1].name[1]) \in 1..35
  /\ \A i \in 1..Len(member[1].addressLines) :
       Len(member[1].addressLines[i]) \in 1..35
  /\ Len(member[1].city) \in 1..30
  /\ Len(member[1].postalCode) \in 1..9
\* 1 to 200 packages, each of a positive weight in LB, KG or OZ and with
\* positive dimensions in IN or CM when it has dimensions; a shipper
\* account number of 6 characters when there is one.
PackagesAsStated(request) ==
  /\ Len(request.packages) >= 1
  /\ Len(request.packages) <= 200
  /\ \A i \in 1..Len(request.packages) :
       LET pkg == request.packages[i] IN
       /\ ~pkg.weight.value.nan
       /\ pkg.weight.value.v > 0
       /\ pkg.weight.unit \in {"LB", "KG", "OZ"}
       /\ pkg.dimensions # Absent =>
            /\ \A d \in {pkg.dimensions[1].length, pkg.dimensions[1].width,
                          pkg.dimensions[1].height} : ~d.nan /\ d.v > 0
            /\ pkg.dimensions[1].unit \in {"IN", "CM"}
AccountAsStated(request) ==
  request.shipperAccountNumber # Absent =>
    Len(request.shipperAccountNumber[1]) = 6

\* C32 (as stated): a request is accepted exactly when both addresses are
\* there with 1 to 3 address lines, a 2-character country code and a
\* 2-character state code when given, it has 1 to 200 packages of positive
\* weight in LB/KG/OZ and positive dimensions in IN/CM when given, and its
\* shipper account number, when given, has 6 characters.
C32_AcceptsExactlyWhen ==
  \A p \in Procs : CalledGetRates(p) =>
    (~RejectedByValidation(p) <=>
       /\ AddressAsStated(procs[p].request.origin)
       /\ AddressAsStated(procs[p].request.destination)
       /\ PackagesAsStated(procs[p].request)
       /\ AccountAsStated(procs[p].request))

\* C32 (amended): a request is accepted exactly when, besides, the name
\* (when given) and every address line have 1 to 35 characters, the city 1
\* to 30 and the postal code 1 to 9, in both addresses; a request with the
\* country code "USA" is rejected and the same request with "US" accepted.
C32_SchemaAccepts ==
  \A p \in Procs : CalledGetRates(p) =>
    /\ ~RejectedByValidation(p) <=>
         /\ AddressAsStated(procs[p].request.origin)
         /\ AddressAsStated(procs[p].request.destination)
         /\ TextsFit(procs[p].request.origin)
         /\ TextsFit(procs[p].request.destination)
         /\ PackagesAsStated(procs[p].request)
         /\ AccountAsStated(procs[p].request)
    /\ procs[p].request = Request(FALSE, Undefined, "LB") => RejectedByValidation(p)
    /\ procs[p].request = Request(TRUE, Undefined, "LB") => ~RejectedByValidation(p)

\* C32 happens: the request with the origin country code "USA" was
\* rejected.
C32_Witness ==
  /\ CalledGetRates(UpsProc)
  /\ RejectedByValidation(UpsProc)
  /\ procs[UpsProc].request.origin # Absent
  /\ Len(procs[UpsProc].request.origin[1].countryCode) = 3
  /\ procs[UpsProc].request.destination = Given(DomesticAddress)

\* C33 (as stated): the service name of a quote is the description of the
\* carrier's record when it has one that is not empty, else the entry of
\* UPS_SERVICE_CODES for the service code when the table has one, else
\* "UPS Service <code>".
C33_ServiceNameTiers ==
  \A p \in Procs : CompleteRecords(p) /\ procs[p].result.ok =>
    LET rated == procs[p].wire.data.rated IN
    \A i \in 1..Len(rated) :
      procs[p].result.rates[i].serviceName =
        IF rated[i].Description \notin {Undefined, ""}
        THEN <<rated[i].Description>>
        ELSE IF rated[i].Code \in DOMAIN UPS_SERVICE_CODES
        THEN <<UPS_SERVICE_CODES[rated[i].Code]>>
        ELSE <<"UPS Service ", rated[i].Code>>

\* C34: the error of a rating call that failed names the carrier "UPS" and
\* has the kind, the status, the upstream code and message and the
\* retryable flag the error translator gave the failure.
C34_TaggedAndKept ==
  \A p \in Procs : RatingFailed(p) =>
    LET e == procs[p].result.error
        translated == translateError(procs[p].wire.failure) IN
    /\ ~procs[p].result.ok
    /\ e.carrier = "UPS"
    /\ e.code = translated.code
    /\ e.httpStatus = translated.httpStatus
    /\ e.upstream = translated.upstream
    /\ e.retryable = translated.retryable

\* C34 happens: a rating request answered with status 400 and a structured
\* error left the caller a CARRIER_API_ERROR of UPS with that status and the
\* upstream code and message.
C34_Witness ==
  /\ RatingFailed(UpsProc)
  /\ procs[UpsProc].wire.failure.status = 400
  /\ procs[UpsProc].result.error.code = "CARRIER_API_ERROR"
  /\ procs[UpsProc].result.error.carrier = "UPS"
  /\ procs[UpsProc].result.error.httpStatus = 400
  /\ procs[UpsProc].result.error.upstream # NoUpstream
  /\ ~procs[UpsProc].result.error.retryable

\* The place in shop.errors of the rejection of carrier i: the rejections
\* are recorded in the order of the carriers.
ErrorPlace(i) == Cardinality({j \in Rejections : j <= i})

\* C35: when shopRates returns, the entry of a rejection that is no
\* CarrierError holds an UNKNOWN_ERROR that is not retryable; the entry of a
\* rejection that is a CarrierError holds that error as it was thrown; the
\* carrier of an entry is the carrier its error names, "UNKNOWN" when it
\* names none.
C35_ErrorEntries ==
  ShopDone =>
    /\ Len(shop.errors) = Cardinality(Rejections)
    /\ \A i \in Rejections :
         LET reason == shop.results[i].reason
             entry == shop.errors[ErrorPlace(i)] IN
         /\ reason.code \in CarrierErrorCodes => entry.error = reason
         /\ reason.code \notin CarrierErrorCodes =>
              /\ entry.error.code = "UNKNOWN_ERROR"
              /\ ~entry.error.retryable
         /\ entry.carrier = IF entry.error.carrier = NoCarrier THEN "UNKNOWN"
                             ELSE entry.error.carrier

\* C35 happens: shopRates returned with the entry of a carrier that threw a
\* plain Error (an UNKNOWN_ERROR of carrier "UNKNOWN") and the entry of a
\* carrier that threw its own CarrierError.
C35_Witness ==
  /\ ShopDone
  /\ \E i, j \in Rejections :
       /\ shop.results[i].reason = PlainError
       /\ shop.errors[ErrorPlace(i)].carrier = "UNKNOWN"
       /\ shop.errors[ErrorPlace(i)].error.code = "UNKNOWN_ERROR"
       /\ shop.results[j].reason.code \in CarrierErrorCodes
       /\ shop.results[j].reason.carrier # NoCarrier
       /\ shop.errors[ErrorPlace(j)].carrier = shop.results[j].reason.carrier

\* C36: every call of getRates on the carrier client that is under way, with
\* the call of getAccessToken in it (that of a caller that joined an
\* exchange in flight included), comes to its end with the quotes or a
\* CarrierError; every call of the ShippingService comes to its end, that
\* of shopRates with its result or a CarrierError.
C36_EveryCallSettles ==
  /\ \A p \in Procs :
       (procs[p].pc \in {"acquire", "send"}) ~>
         /\ procs[p].pc = "done"
         /\ procs[p].result.ok \/ procs[p].result.error.code \in CarrierErrorCodes
  /\ (shop.pc = "waiting") ~>
       /\ shop.pc = "done"
       /\ shop.op = "shopRates" =>
            ~shop.failed \/ shop.error.code \in CarrierErrorCodes

\* C36 happens: a caller that joined the exchange in flight has its outcome
\* while the ShippingService has the result of a call.
C36_Witness ==
  /\ \E p \in Procs : procs[p].pc = "done" /\ procs[p].src = "follower"
  /\ shop.pc = "done"

\* The step in which the credential endpoint's answer fails exchange e.
RefreshFails(e) ==
  /\ e \in outstanding
  /\ e \notin outstanding'
  /\ promise'[e].state = "rejected"

\* The last exchange sent has failed, and the caller that sent it has run
\* its finally block.
FailureSettled ==
  /\ exchangesSent > 0
  /\ promise[exchangesSent].state = "rejected"
  /\ ~LeaderWaiting(exchangesSent)

\* C37: a failed refresh is not remembered.  The step in which the exchange
\* fails leaves the cache as it is, as does the step in which the caller
\* that sent it gets the failure, which clears pendingRefresh, so that the
\* slot is empty whenever no exchange is outstanding and no continuation is
\* due; and the first getAccessToken call after that sends a new exchange
\* and waits for it, not for the one that failed.
C37_FailedRefreshForgotten ==
  [][/\ \A e \in ExchangeIds :
          RefreshFails(e) => cache' = cache /\ cacheMeta' = cacheMeta
     /\ (Quiescent /\ outstanding = {}) => pendingRefresh = 0
     /\ \A p \in Procs :
          /\ (FailStep(p) /\ procs[p].src = "leader") =>
               /\ pendingRefresh' = 0
               /\ cache' = cache
          /\ (CallStep(p) /\ FailureSettled) =>
               /\ pendingRefresh = 0
               /\ exchangesSent' = exchangesSent + 1
               /\ outstanding' = {exchangesSent'}
               /\ procs'[p].src = "leader"
               /\ procs'[p].joined = exchangesSent'
               /\ promise'[exchangesSent'].state = "pending"]_vars

\* C37 happens: the first exchange failed and its caller has the failure,
\* and the call made after that awaits a second exchange.
C37_Witness ==
  /\ exchangesSent = 2
  /\ promise[1].state = "rejected"
  /\ pendingRefresh = 2
  /\ \E p, q \in Procs :
       /\ procs[p].pc = "done"
       /\ procs[p].src = "leader"
       /\ procs[p].joined = 1
       /\ procs[p].result.error = promise[1].reason
       /\ procs[q].pc = "acquire"
       /\ procs[q].src = "leader"
       /\ procs[q].joined = 2

\* C38: the 401 of a rating request that was sent with token T leaves a
\* cached token that is valid and newer than T (the token of a later
\* exchange) in the cache.
C38_LateRejectionKeepsNewer ==
  [][\A p \in Procs :
       (/\ RatingOutcome(p)
        /\ Rejected401(p)
        /\ RawValid
        /\ cache.accessToken > procs[p].bearer) => cache' = cache]_vars

\* Every caller is in getRates with a valid request, none was served from
\* the cache, and no credential exchange they wait for has been answered.
InFlightTogether ==
  \A p \in Procs :
    /\ procs[p].pc = "acquire"
    /\ procs[p].op = "rates"
    /\ RateRequestSchema(procs[p].request)
    /\ procs[p].src # "cache"
    /\ promise[procs[p].joined].state = "pending"

\* The step sends p's rating request.
SendStep(p) == procs[p].pc = "acquire" /\ procs'[p].pc = "send"

\* C39: getRates calls made together on a carrier client whose cache holds
\* no valid token send one credential exchange, which all of them await, one
\* as the caller that sent it; and when it returns a token, each call sends
\* one rating request, with that token as its bearer, and no further
\* exchange.
C39_OneExchangeManyRatings ==
  /\ [](InFlightTogether =>
          /\ Cardinality(outstanding) = 1
          /\ \A p \in Procs : procs[p].joined \in outstanding
          /\ Cardinality({p \in Procs : procs[p].src = "leader"}) = 1)
  /\ [][\A p \in Procs :
          (/\ procs[p].pc = "acquire"
           /\ procs[p].src # "cache"
           /\ procs'[p] # procs[p]
           /\ promise[procs[p].joined].state = "fulfilled") =>
             /\ SendStep(p)
             /\ procs'[p].bearer = promise[procs[p].joined].value
             /\ procs'[p].sends = 1
             /\ exchangesSent' = exchangesSent
             /\ outstanding' = outstanding]_vars

\* C39 happens: every caller has sent its rating request with the token of
\* the one exchange, which one of them sent and the others joined.
C39_Witness ==
  /\ exchangesSent = 1
  /\ promise[1].state = "fulfilled"
  /\ \A p \in Procs : /\ procs[p].pc = "send"
                      /\ procs[p].joined = 1
                      /\ procs[p].sends = 1
                      /\ procs[p].bearer = promise[1].value
  /\ \E p \in Procs : procs[p].src = "follower"

\* C40: the result of the rating operation for a 2xx response with an array
\* of records is all or nothing.  When every record can be mapped, it is one
\* quote per record, in the order of the records, each of the carrier UPS
\* with the service code of its record; when one record cannot be mapped,
\* whichever, the call fails with a PARSE_ERROR and returns no quotes.
C40_AllOrNothing ==
  \A p \in Procs :
    (RatingAnswered(p) /\ procs[p].wire.data.shape = "quotes") =>
      LET rated == procs[p].wire.data.rated
          result == procs[p].result
      IN IF \E i \in 1..Len(rated) : Unmappable(rated[i])
         THEN /\ ~result.ok
              /\ result.error.code = "PARSE_ERROR"
              /\ ~result.quotes
              /\ result.rates = <<>>
         ELSE /\ result.ok
              /\ result.quotes
              /\ Len(result.rates) = Len(rated)
              /\ \A i \in 1..Len(rated) :
                   /\ result.rates[i].carrier = "UPS"
                   /\ result.rates[i].serviceCode = rated[i].Code
                   /\ result.rates[i].amount = ParseFloat(rated[i].MonetaryValue)

\* C40 happens: the first record of a 2xx response can be mapped, the second
\* has a weight unit the table does not hold, and the call has failed with
\* no quotes.
C40_Witness ==
  /\ RatingAnswered(UpsProc)
  /\ Len(procs[UpsProc].wire.data.rated) = 2
  /\ ~Unmappable(procs[UpsProc].wire.data.rated[1])
  /\ procs[UpsProc].wire.data.rated[2].Unit = "XXX"
  /\ procs[UpsProc].wire.data.rated[2].lacks = ""
  /\ procs[UpsProc].result.error.code = "PARSE_ERROR"
  /\ procs[UpsProc].result.rates = <<>>

====
